---------------------------- MODULE Spec2Model ----------------------------
(***************************************************************************)
(* The outbound delivery engine of vSMTP: per-domain SMTP delivery driven  *)
(* by MX resolution, maildir delivery, the dispatch of a message's         *)
(* recipients by transfer method, the placement of the message in the      *)
(* Deferred / Dead queues, and the retry of deferred messages.             *)
(*                                                                         *)
(* Two specifications share the definitions of this module:                *)
(*   Spec    one message travelling through the queues (delivery pass,     *)
(*           deferred retries, the clock);                                 *)
(*   SpecMx  one run of Deliver::deliver_one_domain on every bounded MX    *)
(*           answer, send outcome and certificate configuration;           *)
(*   SpecRetry  the periodic sweeps of the Deferred queue over a message   *)
(*           whose every retry fails transiently;                          *)
(*   SpecPool  concurrent calls of Sender::send on one Sender;             *)
(*   SpecSweep  the loop of start and a sweep of the Deferred queue in     *)
(*           which reading or handling an item can fail.                   *)
(***************************************************************************)
EXTENDS Integers, Sequences, FiniteSets, TLC

VARIABLES
    queues,     \* QueueID -> (message id -> recipient list): the stored contexts
    bodies,     \* message ids whose body is stored
    used,       \* message ids that were handed to the queue store once
    now,        \* the clock, in minutes
    cert,       \* whether get_cert_for_server finds a certificate
    lastOp,     \* record of what the last handler invocation did
    mxrun,      \* SpecMx: one run of deliver_one_domain
    retries,    \* SpecRetry: message id -> number of retries the sweeps made
    senders,    \* SpecPool: Sender::senders, parameters -> pooled transport
    calls,      \* SpecPool: the calls of Sender::send, one per caller
    built,      \* SpecPool: parameters -> number of transports built
    sweep,      \* SpecSweep: the loop of start and one sweep of the Deferred queue
    flight,     \* SpecJoin: domain -> the candidate loop of its group
    sendrun,    \* SpecSend, SpecDeliver: one run of send_email or Deliver::deliver
    tasks       \* SpecOverlap: the sweep tasks spawned by the ticks of start

poolVars == <<senders, calls, built>>

vars == <<queues, bodies, used, now, cert, lastOp, mxrun, retries, poolVars, sweep, flight, sendrun, tasks>>

----------------------------------------------------------------------------
(* Bounds of the model *)

MaxRcpt == 2        \* recipients per message
MaxTime == 10       \* last minute of the clock
MaxMx   == 3        \* MX records in one answer (SpecMx)
MaxSweeps == 102    \* sweeps of the Deferred queue (SpecRetry)
MaxCallers == 2     \* callers of Sender::send (SpecPool)
MaxTo == 3         \* recipients of one run of Deliver::deliver (SpecDeliver)
MaxOverlap == 2    \* sweep tasks spawned while an earlier one is running (SpecOverlap)
MaxQueued == 3      \* entries listed by one sweep (SpecSweep)

(* Program constants *)

RetryDelay == 5     \* minutes per held-back recipient (seconds() * 60 * 5)
deferred_retry_max == 100       \* default_deferred_retry_max
deferred_retry_period == 5      \* minutes: default_deferred_retry_period, 300 s

----------------------------------------------------------------------------
(* Values *)

QueueID  == {"Working", "Deliver", "Deferred", "Dead"}
MsgIds   == {"m1"}
Domains  == {"d1", "d2"}
Addrs    == {"a@d1", "b@d1", "c@d2"}
Hosts    == {"mx1", "mx2"}
NullMX   == "."
Prefs    == {0, 10}

domain(addr) == IF addr = "c@d2" THEN "d2" ELSE "d1"

(* TransferErrorsVariant *)
DnsRecord        == [tag |-> "DnsRecord", domain |-> "", targets |-> <<>>]
HasNullMX(d)     == [tag |-> "HasNullMX", domain |-> d, targets |-> <<>>]
TlsNoCertificate == [tag |-> "TlsNoCertificate", domain |-> "", targets |-> <<>>]
Smtp             == [tag |-> "Smtp", domain |-> "", targets |-> <<>>]
DeliveryError(t) == [tag |-> "DeliveryError", domain |-> "", targets |-> t]
NoError          == [tag |-> "Ok", domain |-> "", targets |-> <<>>]

(* EmailTransferStatus.  HeldBack carries its error history; Failed carries *)
(* its one error as a one-element history.                                  *)
Waiting          == [kind |-> "Waiting", errors |-> <<>>]
sent             == [kind |-> "Sent", errors |-> <<>>]
failed(e, t)     == [kind |-> "Failed", errors |-> <<[timestamp |-> t, variant |-> e]>>]

is_permanent(e)  == e.tag \in {"HasNullMX", "TlsNoCertificate"}

held_back(st, e, t) ==
    IF st.kind = "HeldBack"
    THEN [kind |-> "HeldBack",
          errors |-> Append(st.errors, [timestamp |-> t, variant |-> e])]
    ELSE [kind |-> "HeldBack", errors |-> <<[timestamp |-> t, variant |-> e]>>]

Rcpt(a, tm) == [address |-> a, transfer_method |-> tm, email_status |-> Waiting]

----------------------------------------------------------------------------
(* Sequence helpers *)

Range(s) == {s[i] : i \in 1..Len(s)}

RECURSIVE Flatten(_)
Flatten(ss) == IF ss = <<>> THEN <<>> ELSE Head(ss) \o Flatten(Tail(ss))

----------------------------------------------------------------------------
(* MX resolution: Deliver::get_mx_records *)

MxErr == <<[exchange |-> "error", preference |-> -1]>>

(* Variant of InsertByPreference that puts a record before those of equal   *)
(* preference                                                               *)
InsertByPreference_before_equals(sorted, r) ==
    LET k == Cardinality({i \in 1..Len(sorted) : sorted[i].preference < r.preference})
    IN  SubSeq(sorted, 1, k) \o <<r>> \o SubSeq(sorted, k + 1, Len(sorted))

InsertByPreference(sorted, r) ==
    LET k == Cardinality({i \in 1..Len(sorted) : sorted[i].preference <= r.preference})
    IN  SubSeq(sorted, 1, k) \o <<r>> \o SubSeq(sorted, k + 1, Len(sorted))

RECURSIVE sort_by_key(_)
sort_by_key(s) ==
    IF s = <<>> THEN <<>>
    ELSE InsertByPreference(sort_by_key(SubSeq(s, 1, Len(s) - 1)), s[Len(s)])

get_mx_records(answer) == IF answer = MxErr THEN MxErr ELSE sort_by_key(answer)

----------------------------------------------------------------------------
(* One send through the pool: Sender::send with SenderParameters.  The      *)
(* attempt is recorded with the parameters that identify the destination.   *)

Attempt(relay, server, ok) ==
    [relay_target |-> relay, server_name |-> server, ok |-> ok]

(* Variant of try_mxs in which a null MX is skipped like a candidate that   *)
(* refused the message.                                                     *)
RECURSIVE try_mxs_skips_null(_, _, _, _, _, _)
try_mxs_skips_null(dom, mxs, i, outs, hasCert, attempts) ==
    IF i > Len(mxs)
    THEN [error |-> DeliveryError(mxs), attempts |-> attempts]
    ELSE IF mxs[i] = NullMX
    THEN try_mxs_skips_null(dom, mxs, i + 1, outs, hasCert, attempts)
    ELSE IF ~hasCert
    THEN [error |-> TlsNoCertificate, attempts |-> attempts]
    ELSE IF outs[i]
    THEN [error |-> NoError, attempts |-> Append(attempts, Attempt(mxs[i], dom, TRUE))]
    ELSE try_mxs_skips_null(dom, mxs, i + 1, outs, hasCert,
                            Append(attempts, Attempt(mxs[i], dom, FALSE)))

(* Variant of try_mxs in which the null MX is looked for once the other     *)
(* candidates have been tried                                               *)
RECURSIVE try_mxs_null_last(_, _, _, _, _, _)
try_mxs_null_last(dom, mxs, i, outs, hasCert, attempts) ==
    IF i > Len(mxs)
    THEN [error |-> IF NullMX \in Range(mxs) THEN HasNullMX(dom) ELSE DeliveryError(mxs),
          attempts |-> attempts]
    ELSE IF mxs[i] = NullMX
    THEN try_mxs_null_last(dom, mxs, i + 1, outs, hasCert, attempts)
    ELSE IF ~hasCert
    THEN [error |-> TlsNoCertificate, attempts |-> attempts]
    ELSE IF outs[i]
    THEN [error |-> NoError, attempts |-> Append(attempts, Attempt(mxs[i], dom, TRUE))]
    ELSE try_mxs_null_last(dom, mxs, i + 1, outs, hasCert,
                           Append(attempts, Attempt(mxs[i], dom, FALSE)))

(* Variant of try_mxs in which the send is made without looking for the    *)
(* certificate                                                              *)
RECURSIVE try_mxs_ignores_cert(_, _, _, _, _, _)
try_mxs_ignores_cert(dom, mxs, i, outs, hasCert, attempts) ==
    IF i > Len(mxs)
    THEN [error |-> DeliveryError(mxs), attempts |-> attempts]
    ELSE IF mxs[i] = NullMX
    THEN [error |-> HasNullMX(dom), attempts |-> attempts]
    ELSE IF outs[i]
    THEN [error |-> NoError, attempts |-> Append(attempts, Attempt(mxs[i], dom, TRUE))]
    ELSE try_mxs_ignores_cert(dom, mxs, i + 1, outs, hasCert,
                              Append(attempts, Attempt(mxs[i], dom, FALSE)))

(* Variant of try_mxs in which the loop ends at the first refused send *)
RECURSIVE try_mxs_gives_up_early(_, _, _, _, _, _)
try_mxs_gives_up_early(dom, mxs, i, outs, hasCert, attempts) ==
    IF i > Len(mxs)
    THEN [error |-> DeliveryError(mxs), attempts |-> attempts]
    ELSE IF mxs[i] = NullMX
    THEN [error |-> HasNullMX(dom), attempts |-> attempts]
    ELSE IF ~hasCert
    THEN [error |-> TlsNoCertificate, attempts |-> attempts]
    ELSE [error |-> IF outs[i] THEN NoError ELSE DeliveryError(mxs),
          attempts |-> Append(attempts, Attempt(mxs[i], dom, outs[i]))]

(* Variant of try_mxs in which the loop goes on after a candidate accepted  *)
RECURSIVE try_mxs_keeps_probing(_, _, _, _, _, _)
try_mxs_keeps_probing(dom, mxs, i, outs, hasCert, attempts) ==
    IF i > Len(mxs)
    THEN [error |-> IF \E k \in 1..Len(attempts) : attempts[k].ok
                    THEN NoError ELSE DeliveryError(mxs),
          attempts |-> attempts]
    ELSE IF mxs[i] = NullMX
    THEN [error |-> HasNullMX(dom), attempts |-> attempts]
    ELSE IF ~hasCert
    THEN [error |-> TlsNoCertificate, attempts |-> attempts]
    ELSE try_mxs_keeps_probing(dom, mxs, i + 1, outs, hasCert,
                               Append(attempts, Attempt(mxs[i], dom, outs[i])))

(* The candidate loop of deliver_one_domain_inner, from candidate i on.     *)
(* outs[i] is whether the send to the i-th candidate succeeds.              *)
RECURSIVE try_mxs(_, _, _, _, _, _)
try_mxs(dom, mxs, i, outs, hasCert, attempts) ==
    IF i > Len(mxs)
    THEN [error |-> DeliveryError(mxs), attempts |-> attempts]
    ELSE IF mxs[i] = NullMX
    THEN [error |-> HasNullMX(dom), attempts |-> attempts]
    ELSE IF ~hasCert
    THEN [error |-> TlsNoCertificate, attempts |-> attempts]
    ELSE IF outs[i]
    THEN [error |-> NoError, attempts |-> Append(attempts, Attempt(mxs[i], dom, TRUE))]
    ELSE try_mxs(dom, mxs, i + 1, outs, hasCert,
                 Append(attempts, Attempt(mxs[i], dom, FALSE)))

(* Variant of deliver_one_domain_inner in which an empty answer is handed   *)
(* to the candidate loop, so that no send is made for it.                   *)
deliver_one_domain_inner_no_fallback(dom, answer, outs, hasCert) ==
    LET records == get_mx_records(answer) IN
    IF records = MxErr
    THEN [error |-> DnsRecord, attempts |-> <<>>]
    ELSE try_mxs(dom, [i \in 1..Len(records) |-> records[i].exchange],
                 1, outs, hasCert, <<>>)

(* Variant of deliver_one_domain_inner in which a refused direct send is    *)
(* reported like a domain that refuses mail                                 *)
deliver_one_domain_inner_direct_permanent(dom, answer, outs, hasCert) ==
    LET records == get_mx_records(answer) IN
    IF records = MxErr
    THEN [error |-> DnsRecord, attempts |-> <<>>]
    ELSE IF records = <<>>
    THEN IF ~hasCert
         THEN [error |-> TlsNoCertificate, attempts |-> <<>>]
         ELSE [error |-> IF outs[1] THEN NoError ELSE HasNullMX(dom),
               attempts |-> <<Attempt(dom, dom, outs[1])>>]
    ELSE try_mxs(dom, [i \in 1..Len(records) |-> records[i].exchange],
                 1, outs, hasCert, <<>>)

(* Variant of deliver_one_domain_inner in which a resolution error is       *)
(* treated like an empty answer: the domain itself is tried.                *)
deliver_one_domain_inner_err_as_empty(dom, answer, outs, hasCert) ==
    LET records == IF answer = MxErr THEN <<>> ELSE get_mx_records(answer) IN
    IF records = <<>>
    THEN IF ~hasCert
         THEN [error |-> TlsNoCertificate, attempts |-> <<>>]
         ELSE [error |-> IF outs[1] THEN NoError ELSE Smtp,
               attempts |-> <<Attempt(dom, dom, outs[1])>>]
    ELSE try_mxs(dom, [i \in 1..Len(records) |-> records[i].exchange],
                 1, outs, hasCert, <<>>)

(* Deliver::deliver_one_domain_inner: error = NoError stands for Ok(()).    *)
deliver_one_domain_inner(dom, answer, outs, hasCert) ==
    LET records == get_mx_records(answer) IN
    IF records = MxErr
    THEN [error |-> DnsRecord, attempts |-> <<>>]
    ELSE IF records = <<>>
    THEN IF ~hasCert
         THEN [error |-> TlsNoCertificate, attempts |-> <<>>]
         ELSE [error |-> IF outs[1] THEN NoError ELSE Smtp,
               attempts |-> <<Attempt(dom, dom, outs[1])>>]
    ELSE try_mxs(dom, [i \in 1..Len(records) |-> records[i].exchange],
                 1, outs, hasCert, <<>>)

(* Variant of set_status in which the outcome reaches the first recipient   *)
(* of the group only                                                        *)
set_status_first_only(rcpt, r, t) ==
    [rcpt |-> [i \in 1..Len(rcpt) |->
                 IF i > 1 THEN rcpt[i] ELSE
                 [rcpt[i] EXCEPT !.email_status =
                    IF r.error = NoError THEN sent
                    ELSE IF is_permanent(r.error) THEN failed(r.error, t)
                    ELSE held_back(rcpt[i].email_status, r.error, t)]],
     error |-> r.error,
     attempts |-> r.attempts]

(* The match of deliver_one_domain on the result r of the inner function:   *)
(* the group's outcome mapped on every recipient of the group; t is the     *)
(* time of the attempt.                                                     *)
set_status(rcpt, r, t) ==
    [rcpt |-> [i \in 1..Len(rcpt) |->
                 [rcpt[i] EXCEPT !.email_status =
                    IF r.error = NoError THEN sent
                    ELSE IF is_permanent(r.error) THEN failed(r.error, t)
                    ELSE held_back(rcpt[i].email_status, r.error, t)]],
     error |-> r.error,
     attempts |-> r.attempts]

(* Deliver::deliver_one_domain *)
deliver_one_domain(dom, rcpt, answer, outs, hasCert, t) ==
    set_status(rcpt, deliver_one_domain_inner(dom, answer, outs, hasCert), t)

----------------------------------------------------------------------------
(* Deliver::deliver: the recipients grouped by the domain of their address, *)
(* one deliver_one_domain per group, the groups' results flattened.  The    *)
(* groups are taken in the order of DomainSeq (the source iterates a hash   *)
(* map, whose order is unspecified).  dns[d] is the MX answer for d and     *)
(* outs[d] the outcomes of the sends of d's group.                          *)

DomainSeq == <<"d1", "d2">>
AddrSeq   == <<"a@d1", "b@d1", "c@d2">>

Envelope(rcpt) == {rcpt[i].address : i \in 1..Len(rcpt)}

(* Variant of rcpt_by_domain in which a domain already in the map keeps its *)
(* first recipient only                                                     *)
rcpt_by_domain_keeps_first(to) ==
    LET grp(d) == SelectSeq(to, LAMBDA r : domain(r.address) = d)
    IN  SelectSeq([i \in 1..Len(DomainSeq) |->
                     [domain |-> DomainSeq[i],
                      rcpt   |-> IF grp(DomainSeq[i]) = <<>> THEN <<>>
                                 ELSE <<grp(DomainSeq[i])[1]>>]],
                  LAMBDA g : g.rcpt # <<>>)

rcpt_by_domain(to) ==
    LET grp(d) == SelectSeq(to, LAMBDA r : domain(r.address) = d)
    IN  SelectSeq([i \in 1..Len(DomainSeq) |->
                     [domain |-> DomainSeq[i], rcpt |-> grp(DomainSeq[i])]],
                  LAMBDA g : g.rcpt # <<>>)

(* The results res of the groups flattened; the sends that were made, each  *)
(* with the envelope of its group.                                          *)
join_all(groups, res) ==
    [rcpt   |-> Flatten([i \in 1..Len(res) |-> res[i].rcpt]),
     sends  |-> UNION {
                  {[relay_target |-> a.relay_target,
                    server_name  |-> a.server_name,
                    envelope     |-> Envelope(groups[i].rcpt)]
                     : a \in Range(res[i].attempts)}
                  : i \in 1..Len(res)},
     handed |-> UNION {Envelope(groups[i].rcpt) : i \in 1..Len(groups)}]

(* Variant of Deliver_deliver in which the recipients are not grouped: the  *)
(* whole list is delivered as the group of its first recipient's domain.    *)
Deliver_deliver_one_group(to, dns, outs, hasCert, t) ==
    LET d == domain(to[1].address) IN
    join_all(<<[domain |-> d, rcpt |-> to]>>,
             <<deliver_one_domain(d, to, dns[d], outs[d], hasCert, t)>>)

Deliver_deliver(to, dns, outs, hasCert, t) ==
    LET groups == rcpt_by_domain(to) IN
    join_all(groups,
             [i \in 1..Len(groups) |->
                deliver_one_domain(groups[i].domain, groups[i].rcpt,
                                   dns[groups[i].domain], outs[groups[i].domain],
                                   hasCert, t)])

(* Variant of Maildir_deliver in which a failure leaves the status as it is *)
Maildir_deliver_keeps_status(to, written) ==
    [i \in 1..Len(to) |->
        [to[i] EXCEPT !.email_status =
            IF to[i].address \in written THEN sent ELSE to[i].email_status]]

(* Variant of Maildir_deliver in which the first failure ends the loop: the *)
(* recipients after it are left as they are                                 *)
Maildir_deliver_stops_at_failure(to, written) ==
    [i \in 1..Len(to) |->
        [to[i] EXCEPT !.email_status =
            IF \E j \in 1..(i - 1) : to[j].address \notin written THEN to[i].email_status
            ELSE IF to[i].address \in written THEN sent
            ELSE IF to[i].email_status.kind = "HeldBack" THEN to[i].email_status
            ELSE [kind |-> "HeldBack", errors |-> <<>>]]]

(* Maildir::deliver: written is the set of addresses whose user exists and  *)
(* whose maildir write succeeds.  A failure keeps a HeldBack status as it   *)
(* is and turns any other status into HeldBack with an empty history.       *)
Maildir_deliver(to, written) ==
    [i \in 1..Len(to) |->
        [to[i] EXCEPT !.email_status =
            IF to[i].address \in written THEN sent
            ELSE IF to[i].email_status.kind = "HeldBack" THEN to[i].email_status
            ELSE [kind |-> "HeldBack", errors |-> <<>>]]]

----------------------------------------------------------------------------
(* First delivery: send_email and move_to_queue *)

TransferSeq == <<"Deliver", "Maildir", "None">>

filter_by_transfer_method(to) ==
    SelectSeq([i \in 1..Len(TransferSeq) |->
                 [method |-> TransferSeq[i],
                  rcpt   |-> SelectSeq(to, LAMBDA r : r.transfer_method = TransferSeq[i])]],
              LAMBDA g : g.rcpt # <<>>)

(* One group of the triage handed to its transport; a None group is skipped *)
dispatch(g, dns, outs, written, hasCert, t) ==
    IF g.method = "Deliver"
    THEN Deliver_deliver(g.rcpt, dns, outs, hasCert, t)
    ELSE IF g.method = "Maildir"
    THEN [rcpt   |-> Maildir_deliver(g.rcpt, written),
          sends  |-> {[relay_target |-> "maildir", server_name |-> "maildir",
                       envelope |-> Envelope(g.rcpt)]},
          handed |-> Envelope(g.rcpt)]
    ELSE [rcpt |-> g.rcpt, sends |-> {}, handed |-> {}]

NotSent(rcpt) == SelectSeq(rcpt, LAMBDA r : r.email_status.kind # "Sent")

(* Variant of collect in which the Sent recipients are returned too *)
collect_keeps_sent(res) ==
    LET all == Flatten([i \in 1..Len(res) |-> res[i].rcpt])
    IN  [triage |-> all,
         rcpt   |-> all,
         sends  |-> UNION {res[i].sends : i \in 1..Len(res)},
         handed |-> UNION {res[i].handed : i \in 1..Len(res)}]

(* The groups' results res collected: every recipient (triage), those not   *)
(* Sent (the list send_email returns), the sends made and the recipients    *)
(* handed to a transport.                                                   *)
collect(res) ==
    LET all == Flatten([i \in 1..Len(res) |-> res[i].rcpt])
    IN  [triage |-> all,
         rcpt   |-> NotSent(all),
         sends  |-> UNION {res[i].sends : i \in 1..Len(res)},
         handed |-> UNION {res[i].handed : i \in 1..Len(res)}]

send_email(to, dns, outs, written, hasCert, t) ==
    LET triage == filter_by_transfer_method(to) IN
    collect([i \in 1..Len(triage) |->
               dispatch(triage[i], dns, outs, written, hasCert, t)])

(* The queue store *)
In(qs, q, m)          == m \in DOMAIN qs[q]
write_to_queue(qs, q, m, ctx) ==
    [qs EXCEPT ![q] = [x \in (DOMAIN qs[q]) \cup {m} |-> IF x = m THEN ctx ELSE qs[q][x]]]
remove(qs, q, m) ==
    [qs EXCEPT ![q] = [x \in (DOMAIN qs[q]) \ {m} |-> qs[q][x]]]

AnyHeldBack(rcpt) == \E i \in 1..Len(rcpt) : rcpt[i].email_status.kind = "HeldBack"
AnyFailedOrNone(rcpt) ==
    \E i \in 1..Len(rcpt) : \/ rcpt[i].email_status.kind = "Failed"
                            \/ rcpt[i].transfer_method = "None"

(* Variant of move_to_queue that does not look at the transfer method *)
move_to_queue_ignores_none(qs, m, ctx) ==
    LET q1 == IF AnyHeldBack(ctx) THEN write_to_queue(qs, "Deferred", m, ctx) ELSE qs
    IN  IF \E i \in 1..Len(ctx) : ctx[i].email_status.kind = "Failed"
        THEN write_to_queue(q1, "Dead", m, ctx) ELSE q1

(* Variant of move_to_queue with the two destinations exchanged *)
move_to_queue_swapped(qs, m, ctx) ==
    LET q1 == IF AnyHeldBack(ctx) THEN write_to_queue(qs, "Dead", m, ctx) ELSE qs
    IN  IF AnyFailedOrNone(ctx) THEN write_to_queue(q1, "Deferred", m, ctx) ELSE q1

move_to_queue(qs, m, ctx) ==
    LET q1 == IF AnyHeldBack(ctx) THEN write_to_queue(qs, "Deferred", m, ctx) ELSE qs
    IN  IF AnyFailedOrNone(ctx) THEN write_to_queue(q1, "Dead", m, ctx) ELSE q1

----------------------------------------------------------------------------
(* Deferred retry: handle_one_in_deferred_queue *)

HeldBackTimes(rcpt) ==
    {rcpt[i].email_status.errors[Len(rcpt[i].email_status.errors)].timestamp :
        i \in {j \in 1..Len(rcpt) : /\ rcpt[j].email_status.kind = "HeldBack"
                                    /\ rcpt[j].email_status.errors # <<>>}}

Min(S) == CHOOSE x \in S : \A y \in S : x <= y

held_back_count(rcpt) ==
    Cardinality({i \in 1..Len(rcpt) : rcpt[i].email_status.kind = "HeldBack"})

(* Variant of not_ready in which a message without a recorded error waits   *)
(* for one retry delay counted from time 0                                  *)
not_ready_without_history(rcpt, flushing_at) ==
    IF HeldBackTimes(rcpt) = {}
    THEN RetryDelay > flushing_at
    ELSE Min(HeldBackTimes(rcpt)) + held_back_count(rcpt) * RetryDelay > flushing_at

(* Variant of not_ready with the comparison >= in place of > *)
not_ready_inclusive(rcpt, flushing_at) ==
    /\ HeldBackTimes(rcpt) # {}
    /\ Min(HeldBackTimes(rcpt)) + held_back_count(rcpt) * RetryDelay >= flushing_at

(* The guard of the match on last_error: the message is skipped this sweep *)
not_ready(rcpt, flushing_at) ==
    /\ HeldBackTimes(rcpt) # {}
    /\ Min(HeldBackTimes(rcpt)) + held_back_count(rcpt) * RetryDelay > flushing_at

(* Variant of is_sendable that lets every recipient through *)
is_sendable_any(st) == st.kind \in {"Waiting", "HeldBack", "Sent", "Failed"}

(* split_and_sort_and_send: the recipients that can still be sent to are    *)
(* dispatched by transfer method, their statuses are merged back, and the   *)
(* placement is derived from the statuses.                                  *)
is_sendable(st) == st.kind \in {"Waiting", "HeldBack"}

SenderOutcome(rcpt) ==
    IF rcpt = <<>> THEN "MoveToDead"
    ELSE IF AnyFailedOrNone(rcpt) THEN "MoveToDead"
    ELSE IF AnyHeldBack(rcpt) THEN "MoveToDeferred"
    ELSE "RemoveFromDisk"

(* The statuses of the result r of the dispatch merged back into ctx *)
merge(ctx, r) ==
    LET new(a) == CHOOSE x \in Range(r.triage) : x.address = a
        merged == [i \in 1..Len(ctx) |->
                     IF is_sendable(ctx[i].email_status) THEN new(ctx[i].address)
                     ELSE ctx[i]]
    IN  [rcpt |-> merged, outcome |-> SenderOutcome(merged),
         sends |-> r.sends, handed |-> r.handed]

split_and_sort_and_send(ctx, dns, outs, written, hasCert, t) ==
    merge(ctx, send_email(SelectSeq(ctx, LAMBDA x : is_sendable(x.email_status)),
                          dns, outs, written, hasCert, t))

(* Variant of place in which MoveToDeferred leaves the stored context *)
place_no_rewrite(qs, bs, m, ctx, outcome) ==
    IF outcome = "MoveToDead"
    THEN [queues |-> write_to_queue(remove(qs, "Deferred", m), "Dead", m, ctx),
          bodies |-> bs]
    ELSE IF outcome = "MoveToDeferred"
    THEN [queues |-> qs, bodies |-> bs]
    ELSE [queues |-> remove(qs, "Deferred", m), bodies |-> bs \ {m}]

(* Variant of place in which MoveToDead copies the context to Dead and      *)
(* leaves it in Deferred                                                    *)
place_dead_copy(qs, bs, m, ctx, outcome) ==
    IF outcome = "MoveToDead"
    THEN [queues |-> write_to_queue(qs, "Dead", m, ctx), bodies |-> bs]
    ELSE IF outcome = "MoveToDeferred"
    THEN [queues |-> write_to_queue(qs, "Deferred", m, ctx), bodies |-> bs]
    ELSE [queues |-> remove(qs, "Deferred", m), bodies |-> bs \ {m}]

(* Variant of place in which RemoveFromDisk removes the context only *)
place_keeps_body(qs, bs, m, ctx, outcome) ==
    IF outcome = "MoveToDead"
    THEN [queues |-> write_to_queue(remove(qs, "Deferred", m), "Dead", m, ctx),
          bodies |-> bs]
    ELSE IF outcome = "MoveToDeferred"
    THEN [queues |-> write_to_queue(qs, "Deferred", m, ctx), bodies |-> bs]
    ELSE [queues |-> remove(qs, "Deferred", m), bodies |-> bs]

(* The match on the outcome: move_to, write_ctx or remove_both *)
place(qs, bs, m, ctx, outcome) ==
    IF outcome = "MoveToDead"
    THEN [queues |-> write_to_queue(remove(qs, "Deferred", m), "Dead", m, ctx),
          bodies |-> bs]
    ELSE IF outcome = "MoveToDeferred"
    THEN [queues |-> write_to_queue(qs, "Deferred", m, ctx), bodies |-> bs]
    ELSE [queues |-> remove(qs, "Deferred", m), bodies |-> bs \ {m}]

----------------------------------------------------------------------------
(* The connection pool: Sender.  A pooled transport is identified by the    *)
(* parameters it was built for and the rank of its build (the identity of   *)
(* the Arc).                                                                *)

Callers   == 1..MaxCallers
Params    == {"k1", "k2", "kbad"}   \* kbad: a certificate that cannot be encoded

NoHandle  == <<"none", 0>>
NoCall    == [pc |-> "idle", params |-> "k1", new_sender |-> NoHandle,
              sender |-> NoHandle, result |-> "none", alone |-> TRUE,
              lock |-> "none"]

PoolInit ==
    /\ senders = <<>>
    /\ calls = [c \in Callers |-> NoCall]
    /\ built = [k \in Params |-> 0]

(* The RwLock of the map: lock is the guard a call holds.  A read guard is  *)
(* granted when no other call holds the write guard, the write guard when   *)
(* no other call holds any guard.                                           *)
ReadFree(c)  == \A d \in Callers \ {c} : calls[d].lock # "write"
WriteFree(c) == \A d \in Callers \ {c} : calls[d].lock = "none"

(* Variant of contains_key that never finds the key *)
contains_key_never(map, k) == k \in {}

contains_key(map, k) == k \in DOMAIN map

(* Variant of insert for a map that holds one entry: the others are evicted *)
insert_evicting(map, k, h) == [x \in {k} |-> h]

(* HashMap::insert: an entry of the same key is replaced *)
insert(map, k, h) == [x \in (DOMAIN map) \cup {k} |-> IF x = k THEN h ELSE map[x]]

(* build_sender fails when the certificate cannot be converted *)
build_sender_ok(k) == k # "kbad"

InFlight(c) == calls[c].pc \notin {"idle", "done"}

(* A caller enters Sender::send with the parameters k.  alone records that  *)
(* no other call with the same parameters is in progress.                   *)
Send(c, k) ==
    /\ calls[c].pc = "idle"
    /\ LET racing == {d \in Callers \ {c} : InFlight(d) /\ calls[d].params = k}
       IN  calls' = [d \in Callers |->
                       IF d = c THEN [NoCall EXCEPT !.pc = "check", !.params = k,
                                                    !.alone = (racing = {})]
                       ELSE IF d \in racing THEN [calls[d] EXCEPT !.alone = FALSE]
                       ELSE calls[d]]
    /\ UNCHANGED <<senders, built>>

(* senders.read(): the read guard of the condition of the if, or of the    *)
(* final lookup, is acquired                                                *)
ReadLock(c) ==
    /\ calls[c].pc \in {"check", "get"}
    /\ calls[c].lock = "none"
    /\ ReadFree(c)
    /\ calls' = [calls EXCEPT ![c].lock = "read"]
    /\ UNCHANGED <<senders, built>>

(* senders.read().contains_key(params); the guard is a temporary of the     *)
(* condition and is dropped at its end                                      *)
ContainsKey(c) ==
    /\ calls[c].pc = "check"
    /\ calls[c].lock = "read"
    /\ calls' = [calls EXCEPT ![c].lock = "none",
                              ![c].pc =
                    IF contains_key(senders, calls[c].params) THEN "get" ELSE "build"]
    /\ UNCHANGED <<senders, built>>

(* Variant of BuildSender in which a failed build is kept as a handle *)
BuildSender_caches_failure(c) ==
    /\ calls[c].pc = "build"
    /\ built' = [built EXCEPT ![calls[c].params] =
                    IF build_sender_ok(calls[c].params) THEN @ + 1 ELSE @]
    /\ calls' = [calls EXCEPT ![c].pc = "insert",
                              ![c].new_sender =
                                  <<calls[c].params, built'[calls[c].params]>>]
    /\ UNCHANGED senders

(* Self::build_sender(params)?: an error returns from send *)
BuildSender(c) ==
    /\ calls[c].pc = "build"
    /\ IF build_sender_ok(calls[c].params)
       THEN /\ built' = [built EXCEPT ![calls[c].params] = @ + 1]
            /\ calls' = [calls EXCEPT ![c].pc = "insert",
                                      ![c].new_sender =
                                          <<calls[c].params, built[calls[c].params] + 1>>]
       ELSE /\ calls' = [calls EXCEPT ![c].pc = "done", ![c].result = "build error"]
            /\ UNCHANGED built
    /\ UNCHANGED senders

(* senders.write(): the write guard is acquired, after build_sender *)
WriteLock(c) ==
    /\ calls[c].pc = "insert"
    /\ calls[c].lock = "none"
    /\ WriteFree(c)
    /\ calls' = [calls EXCEPT ![c].lock = "write"]
    /\ UNCHANGED <<senders, built>>

(* writer.insert(params.clone(), new_sender); the guard is dropped at the   *)
(* end of the block of the if                                               *)
Insert(c) ==
    /\ calls[c].pc = "insert"
    /\ calls[c].lock = "write"
    /\ senders' = insert(senders, calls[c].params, calls[c].new_sender)
    /\ calls' = [calls EXCEPT ![c].pc = "get", ![c].lock = "none"]
    /\ UNCHANGED built

(* Variant of Get in which the read guard lives as long as the handle *)
Get_keeps_guard(c) ==
    /\ calls[c].pc = "get"
    /\ calls[c].lock = "read"
    /\ IF calls[c].params \in DOMAIN senders
       THEN calls' = [calls EXCEPT ![c].pc = "send",
                                   ![c].sender = senders[calls[c].params]]
       ELSE calls' = [calls EXCEPT ![c].pc = "done", ![c].lock = "none",
                                   ![c].result = "panic"]
    /\ UNCHANGED <<senders, built>>

(* Arc::clone(senders.read().get(params).expect("key added right before")): *)
(* expect panics when the key is absent; the guard is a temporary of the    *)
(* let statement and is dropped at its end, before send_raw                 *)
Get(c) ==
    /\ calls[c].pc = "get"
    /\ calls[c].lock = "read"
    /\ IF calls[c].params \in DOMAIN senders
       THEN calls' = [calls EXCEPT ![c].pc = "send", ![c].lock = "none",
                                   ![c].sender = senders[calls[c].params]]
       ELSE calls' = [calls EXCEPT ![c].pc = "done", ![c].lock = "none",
                                   ![c].result = "panic"]
    /\ UNCHANGED <<senders, built>>

(* sender.send_raw(envelop, message).await *)
SendRaw(c) ==
    /\ calls[c].pc = "send"
    /\ \E r \in {"ok", "fail to send email"} :
          calls' = [calls EXCEPT ![c].pc = "done", ![c].result = r]
    /\ UNCHANGED <<senders, built>>

NextPool ==
    /\ \E c \in Callers :
          \/ \E k \in Params : Send(c, k)
          \/ ReadLock(c)
          \/ ContainsKey(c)
          \/ BuildSender(c)
          \/ WriteLock(c)
          \/ Insert(c)
          \/ Get(c)
          \/ SendRaw(c)
    /\ UNCHANGED <<queues, bodies, used, now, cert, lastOp, mxrun, retries, sweep, flight, sendrun, tasks>>

----------------------------------------------------------------------------
(* The loop of start and flush_deferred_queue.  An entry of the listing is  *)
(* a valid message identifier, an invalid one or a missing one (the listing *)
(* yields an error for it); fault is the step of the handler that fails for *)
(* a valid one: reading the context, reading the body, or the write, move   *)
(* or removal that places the message.                                      *)

Entries ==
    [id : {"m1", "m2"}, fault : {"none", "get_ctx", "get_msg", "place"}]
        \cup [id : {"invalid", "missing"}, fault : {"none"}]

Listings == UNION {[1..n -> Entries] : n \in 0..MaxQueued}

(* start: "boot" before the loop, "select" in the loop, "returned" after    *)
(* start returned.  pc: the sweep is "none" (not started), in its "loop"    *)
(* at entry i, or "done".  handled: the entries handed to the handler;      *)
(* logged: the entries whose failure was logged; task: the outcome of the   *)
(* last delivery task.                                                      *)
NoSweep == [start |-> "boot", pc |-> "none", queued |-> <<>>, i |-> 1,
            handled |-> <<>>, logged |-> <<>>, task |-> "none"]

(* Variant of flush_item in which the error of the handler ends the sweep *)
flush_item_abort(sw) ==
    LET e == sw.queued[sw.i] IN
    IF e.id \in {"invalid", "missing"}
    THEN [sw EXCEPT !.i = @ + 1, !.logged = Append(@, sw.i)]
    ELSE IF e.fault # "none"
    THEN [sw EXCEPT !.pc = "done", !.handled = Append(@, sw.i),
                    !.logged = Append(@, sw.i)]
    ELSE [sw EXCEPT !.i = @ + 1, !.handled = Append(@, sw.i)]

(* One iteration of the loop of flush_deferred_queue on entry i *)
flush_item(sw) ==
    LET e == sw.queued[sw.i] IN
    IF e.id \in {"invalid", "missing"}
    THEN [sw EXCEPT !.i = @ + 1, !.logged = Append(@, sw.i)]
    ELSE IF e.fault # "none"
    THEN [sw EXCEPT !.i = @ + 1, !.handled = Append(@, sw.i),
                    !.logged = Append(@, sw.i)]
    ELSE [sw EXCEPT !.i = @ + 1, !.handled = Append(@, sw.i)]

(* flush_deliver_queue(..).await? before the loop *)
Boot ==
    /\ sweep.start = "boot"
    /\ \E ok \in BOOLEAN :
          sweep' = [sweep EXCEPT !.start = IF ok THEN "select" ELSE "returned"]

(* delivery_receiver.recv(): the task is spawned and its error is logged *)
Recv ==
    /\ sweep.start = "select"
    /\ \E r \in {"ok", "error"} : sweep' = [sweep EXCEPT !.task = r]

(* flush_deferred_interval.tick(): the sweep is spawned and lists the queue *)
FlushTick ==
    /\ sweep.start = "select"
    /\ sweep.pc = "none"
    /\ \/ \E l \in Listings : sweep' = [sweep EXCEPT !.pc = "loop", !.queued = l]
       \/ sweep' = [sweep EXCEPT !.pc = "done", !.logged = <<0>>]

FlushItem ==
    /\ sweep.pc = "loop"
    /\ sweep.i <= Len(sweep.queued)
    /\ sweep' = flush_item(sweep)

FlushEnd ==
    /\ sweep.pc = "loop"
    /\ sweep.i > Len(sweep.queued)
    /\ sweep' = [sweep EXCEPT !.pc = "done"]

NextSweep ==
    /\ \/ Boot
       \/ Recv
       \/ FlushTick
       \/ FlushItem
       \/ FlushEnd
    /\ UNCHANGED <<queues, bodies, used, now, cert, lastOp, mxrun, retries, poolVars, flight, sendrun, tasks>>

----------------------------------------------------------------------------
(* The futures of Deliver::deliver: one deliver_one_domain per domain,      *)
(* polled together by join_all.  Each is in the candidate loop of           *)
(* deliver_one_domain_inner over mxs; the candidates are numbered by their  *)
(* position.  inflight: the sends awaited; failed, accepted: the sends that *)
(* completed.                                                               *)

MxLists  == UNION {[1..n -> Hosts] : n \in 1..MaxMx}

NoLoop   == [pc |-> "idle", mxs |-> <<>>, inflight |-> {}, failed |-> {},
             accepted |-> {}]
NoFlight == [d \in Domains |-> NoLoop]

Started(g) == g.inflight \cup g.failed \cup g.accepted

(* Variant of SendStart in which the send to the next candidate starts      *)
(* without awaiting the one before it                                       *)
SendStart_eager(d) ==
    /\ flight[d].pc = "loop"
    /\ Cardinality(Started(flight[d])) < Len(flight[d].mxs)
    /\ flight' = [flight EXCEPT
                     ![d].inflight = @ \cup {Cardinality(Started(flight[d])) + 1}]
    /\ UNCHANGED <<queues, bodies, used, now, cert, lastOp, mxrun, retries, poolVars, sweep, sendrun, tasks>>

(* self.senders.send(..) is called for the next candidate: the loop is      *)
(* between two iterations, no send of the group being awaited               *)
SendStart(d) ==
    /\ flight[d].pc = "loop"
    /\ flight[d].inflight = {}
    /\ Cardinality(Started(flight[d])) < Len(flight[d].mxs)
    /\ flight' = [flight EXCEPT
                     ![d].inflight = @ \cup {Cardinality(Started(flight[d])) + 1}]
    /\ UNCHANGED <<queues, bodies, used, now, cert, lastOp, mxrun, retries, poolVars, sweep, sendrun, tasks>>

(* The awaited send completes: Ok returns from the function, Err goes on    *)
(* to the next candidate, and after the last one the function returns       *)
(* DeliveryError                                                            *)
SendEnd(d, ok) ==
    /\ \E k \in flight[d].inflight :
          flight' = [flight EXCEPT
                       ![d].inflight = @ \ {k},
                       ![d].accepted = IF ok THEN @ \cup {k} ELSE @,
                       ![d].failed   = IF ok THEN @ ELSE @ \cup {k},
                       ![d].pc       = IF ok \/ k = Len(flight[d].mxs)
                                       THEN "done" ELSE @]
    /\ UNCHANGED <<queues, bodies, used, now, cert, lastOp, mxrun, retries, poolVars, sweep, sendrun, tasks>>

NextJoin ==
    \E d \in Domains :
        \/ SendStart(d)
        \/ \E ok \in BOOLEAN : SendEnd(d, ok)

----------------------------------------------------------------------------
(* The record of a handler invocation *)

(* The resolution of every domain fails *)
Idle_sc == [answer |-> MxErr, outs |-> <<FALSE>>]
Unreachable == [d \in Domains |-> Idle_sc]

Idle == [kind |-> "idle", msg |-> "", found |-> FALSE, ready |-> FALSE,
         flushing_at |-> 0, pre |-> <<>>, post |-> <<>>, sends |-> {},
         handed |-> {}, env |-> Unreachable, read_msg |-> FALSE]

(* env, the answers of the resolver during the invocation, is filled in by  *)
(* the action.  read_msg is whether get_msg was called: both handlers read  *)
(* the body after the context, the deferred one after its readiness guard.  *)
Op(kind, m, found, ready, f, pre, post, sends, handed) ==
    [kind |-> kind, msg |-> m, found |-> found, ready |-> ready,
     flushing_at |-> f, pre |-> pre, post |-> post, sends |-> sends,
     handed |-> handed, env |-> Unreachable, read_msg |-> found /\ ready]

(* What the environment answers during one pass *)
OutChoices(n) == [1..n -> BOOLEAN]

(* The answers and send outcomes of one pass over the recipients of ctx: per *)
(* domain, a resolution error, a null MX, or one exchange that accepts.     *)
Scenarios ==
    {[answer |-> MxErr, outs |-> <<FALSE>>],
     [answer |-> <<[exchange |-> NullMX, preference |-> 0]>>, outs |-> <<FALSE>>],
     [answer |-> <<[exchange |-> "mx1", preference |-> 0]>>, outs |-> <<TRUE>>]}
Envs(ctx) ==
    {e \in [Domains -> Scenarios] :
        \A d \in Domains :
            (\A i \in 1..Len(ctx) : domain(ctx[i].address) # d
                                    \/ ctx[i].transfer_method # "Deliver")
                => e[d] = Idle_sc}
MaildirAddrs(ctx) ==
    {ctx[i].address : i \in {j \in 1..Len(ctx) : ctx[j].transfer_method = "Maildir"}}

(* The recipient lists a message is accepted with: distinct addresses,      *)
(* every transfer method, every status Waiting.                             *)
RcptLists ==
    UNION {{[i \in 1..n |-> Rcpt(AddrSeq[ix[i]], tm[i])] :
              ix \in {f \in [1..n -> 1..Len(AddrSeq)] :
                        \A i \in 1..n, j \in 1..n : i < j => f[i] < f[j]},
              tm \in [1..n -> Range(TransferSeq)]}
           : n \in 0..MaxRcpt}

----------------------------------------------------------------------------
(* One run of send_email with transports that can return an error.  A       *)
(* transport returns anyhow::Result<()>; Maildir::deliver and               *)
(* Deliver::deliver always return their recipients with a status, the       *)
(* Forward transport can return Err.  errs is the set of transfer methods   *)
(* whose transport returns Err in this run; order is the order in which the *)
(* map of the triage is iterated.                                           *)

SendSeq    == <<"Forward", "Deliver", "Maildir", "None">>
SendOrders == {SendSeq, <<"None", "Maildir", "Deliver", "Forward">>}

triage_in(order, to) ==
    SelectSeq([i \in 1..Len(order) |->
                 [method |-> order[i],
                  rcpt   |-> SelectSeq(to, LAMBDA r : r.transfer_method = order[i])]],
              LAMBDA g : g.rcpt # <<>>)

(* Forward::deliver when it returns Ok: every recipient of the group Sent *)
Forward_deliver(to) ==
    [rcpt   |-> [i \in 1..Len(to) |-> [to[i] EXCEPT !.email_status = sent]],
     sends  |-> {[relay_target |-> "forward", server_name |-> "forward",
                  envelope |-> Envelope(to)]},
     handed |-> Envelope(to)]

transport_deliver(g, dns, outs, written, hasCert, t) ==
    IF g.method = "Forward" THEN Forward_deliver(g.rcpt)
    ELSE dispatch(g, dns, outs, written, hasCert, t)

(* What a run leaves: result, the returned list out (empty on Err), the     *)
(* methods whose transport was called, and the recipients of the groups     *)
(* gone through, with their statuses.                                       *)
SendResult(ok, res, called) ==
    [result |-> IF ok THEN "Ok" ELSE "Err",
     out    |-> IF ok THEN collect(res).rcpt ELSE <<>>,
     called |-> called,
     after  |-> collect(res).triage]

(* The for loop of send_email from group i on: a None group is skipped      *)
(* (continue), the transport of any other group is called and its error     *)
(* returned at once (?).                                                    *)
RECURSIVE send_email_loop(_, _, _, _, _, _, _, _, _, _)
send_email_loop(triage, i, res, called, errs, dns, outs, written, hasCert, t) ==
    IF i > Len(triage)
    THEN SendResult(TRUE, res, called)
    ELSE IF triage[i].method = "None"
    THEN send_email_loop(triage, i + 1, Append(res, dispatch(triage[i], dns, outs, written, hasCert, t)),
                         called, errs, dns, outs, written, hasCert, t)
    ELSE IF triage[i].method \in errs
    THEN SendResult(FALSE, res, called \cup {triage[i].method})
    ELSE send_email_loop(triage, i + 1,
                         Append(res, transport_deliver(triage[i], dns, outs, written, hasCert, t)),
                         called \cup {triage[i].method},
                         errs, dns, outs, written, hasCert, t)

(* The recipient lists of a run: distinct addresses, every transfer method  *)
SendLists ==
    UNION {{[i \in 1..n |-> Rcpt(AddrSeq[ix[i]], tm[i])] :
              ix \in {f \in [1..n -> 1..Len(AddrSeq)] :
                        \A i \in 1..n, j \in 1..n : i < j => f[i] < f[j]},
              tm \in [1..n -> Range(SendSeq)]}
           : n \in 0..MaxRcpt}

(* The recipient lists of a run of Deliver::deliver: at most MaxTo          *)
(* addresses in any order, repeated or not, all Waiting                     *)
DeliverLists ==
    UNION {{[i \in 1..n |-> Rcpt(a[i], "Deliver")] : a \in [1..n -> Addrs]}
           : n \in 1..MaxTo}

NoSend == [pc |-> "idle", to |-> <<>>, order |-> SendSeq, env |-> Unreachable,
           written |-> {}, errs |-> {}, result |-> "none", out |-> <<>>,
           called |-> {}, after |-> <<>>]

SendEmail ==
    /\ sendrun.pc = "send_email"
    /\ \E r \in {send_email_loop(triage_in(sendrun.order, sendrun.to), 1, <<>>, {},
                                  sendrun.errs,
                                  [d \in Domains |-> sendrun.env[d].answer],
                                  [d \in Domains |-> sendrun.env[d].outs],
                                  sendrun.written, cert, now)} :
          sendrun' = [sendrun EXCEPT !.pc = "done", !.result = r.result, !.out = r.out,
                                     !.called = r.called, !.after = r.after]
    /\ UNCHANGED <<queues, bodies, used, now, cert, lastOp, mxrun, retries, poolVars, sweep, flight, tasks>>

NextSend == SendEmail

(* Deliver::deliver on the list to *)
DeliverAll ==
    /\ sendrun.pc = "deliver"
    /\ \E r \in {Deliver_deliver(sendrun.to,
                                  [d \in Domains |-> sendrun.env[d].answer],
                                  [d \in Domains |-> sendrun.env[d].outs], cert, now)} :
          sendrun' = [sendrun EXCEPT !.pc = "done", !.result = "Ok", !.out = r.rcpt,
                                     !.called = {"Deliver"}, !.after = r.rcpt]
    /\ UNCHANGED <<queues, bodies, used, now, cert, lastOp, mxrun, retries, poolVars, sweep, flight, tasks>>

NextDeliver == DeliverAll

----------------------------------------------------------------------------
(* The sweep tasks.  Every tick of the interval spawns flush_deferred_queue *)
(* as a task of its own; the task lists the Deferred queue and awaits       *)
(* handle_one_in_deferred_queue for one entry after the other.  The handler *)
(* is taken at its awaits: get_ctx, get_msg, split_and_sort_and_send and    *)
(* the move, write or removal that places the message.                      *)

SweepIds == 1..MaxOverlap
MsgSeq   == <<"m1", "m2">>

(* queue_manager.list(Deferred) *)
list(qs) == SelectSeq(MsgSeq, LAMBDA m : In(qs, "Deferred", m))

(* pc: "none" (not spawned), "loop" (between two entries), "get_msg",       *)
(* "send" and "place" (in the handler of entry i, before that await         *)
(* returns), "stuck" (the send never completes), "done".  The entries       *)
(* before i are those whose handler returned; last: what the last handler   *)
(* that returned did ("ok", "not ready", or the read whose error it         *)
(* returned); sent: the recipients the sends of this task delivered to;     *)
(* placed: the messages this task moved, wrote or removed; touched: the     *)
(* running handler made a send or a queue write.                            *)
NoTask  == [pc |-> "none", queued |-> <<>>, i |-> 1, f |-> 0, ctx |-> <<>>,
            outcome |-> "none", last |-> "none", sent |-> {},
            placed |-> {}, touched |-> FALSE]
NoTasks == [s \in SweepIds |-> NoTask]

Current(s) == tasks[s].queued[tasks[s].i]

(* The handler of entry i returned: the loop goes to the next entry, and    *)
(* after the last one the task is over                                      *)
Returned(tk, how) ==
    [tk EXCEPT !.pc = IF tk.i < Len(tk.queued) THEN "loop" ELSE "done",
               !.i = @ + 1, !.last = how, !.ctx = <<>>, !.outcome = "none"]

(* flush_deferred_interval.tick(): a sweep task is spawned, lists the queue *)
SweepTick(s) ==
    /\ tasks[s].pc = "none"
    /\ \A s2 \in SweepIds : s2 < s => tasks[s2].pc # "none"
    /\ tasks' = [tasks EXCEPT ![s].pc = IF list(queues) = <<>> THEN "done" ELSE "loop",
                              ![s].queued = list(queues), ![s].f = now]
    /\ UNCHANGED <<queues, bodies, used, now, cert, lastOp, mxrun, retries, poolVars, sweep, flight, sendrun>>

(* get_ctx(..).await? and the readiness guard *)
GetCtx(s) ==
    /\ tasks[s].pc = "loop"
    /\ \E ok \in BOOLEAN :
          tasks' = [tasks EXCEPT ![s] =
              IF ~ok \/ ~In(queues, "Deferred", Current(s))
              THEN [Returned(@, "get_ctx") EXCEPT !.touched = FALSE]
              ELSE IF not_ready(queues["Deferred"][Current(s)], @.f)
              THEN [Returned(@, "not ready") EXCEPT !.touched = FALSE]
              ELSE [@ EXCEPT !.pc = "get_msg", !.touched = FALSE,
                             !.ctx = queues["Deferred"][Current(s)]]]
    /\ UNCHANGED <<queues, bodies, used, now, cert, lastOp, mxrun, retries, poolVars, sweep, flight, sendrun>>

(* Variant of GetMsg in which a body that cannot be read makes the handler  *)
(* remove the message                                                       *)
GetMsg_removes_on_error(s) ==
    /\ tasks[s].pc = "get_msg"
    /\ \E ok \in BOOLEAN :
          IF ~ok \/ Current(s) \notin bodies
          THEN /\ tasks' = [tasks EXCEPT ![s] = Returned(@, "get_msg")]
               /\ queues' = remove(queues, "Deferred", Current(s))
          ELSE /\ tasks' = [tasks EXCEPT ![s].pc = "send"]
               /\ queues' = queues
    /\ UNCHANGED <<bodies, used, now, cert, lastOp, mxrun, retries, poolVars, sweep, flight, sendrun>>

(* get_msg(..).await? *)
GetMsg(s) ==
    /\ tasks[s].pc = "get_msg"
    /\ \E ok \in BOOLEAN :
          tasks' = [tasks EXCEPT ![s] =
              IF ~ok \/ Current(s) \notin bodies
              THEN Returned(@, "get_msg")
              ELSE [@ EXCEPT !.pc = "send"]]
    /\ UNCHANGED <<queues, bodies, used, now, cert, lastOp, mxrun, retries, poolVars, sweep, flight, sendrun>>

(* The recipients of ctx that r, the context after the send, has as Sent *)
DeliveredBy(m, ctx, r) ==
    {<<m, ctx[k].address>> : k \in {j \in 1..Len(ctx) :
                                       /\ is_sendable(ctx[j].email_status)
                                       /\ r[j].email_status.kind = "Sent"}}

(* split_and_sort_and_send(..).await returns *)
SplitAndSortAndSend(s) ==
    /\ tasks[s].pc = "send"
    /\ \E e \in Envs(tasks[s].ctx) :
       \E r \in {split_and_sort_and_send(tasks[s].ctx,
                                          [d \in Domains |-> e[d].answer],
                                          [d \in Domains |-> e[d].outs], {}, cert, now)} :
          tasks' = [tasks EXCEPT ![s].pc = "place", ![s].touched = TRUE,
                                 ![s].sent = @ \cup DeliveredBy(Current(s), tasks[s].ctx, r.rcpt),
                                 ![s].ctx = r.rcpt, ![s].outcome = r.outcome]
    /\ UNCHANGED <<queues, bodies, used, now, cert, lastOp, mxrun, retries, poolVars, sweep, flight, sendrun>>

(* split_and_sort_and_send(..).await never returns: the send has no timeout *)
(* of its own and the peer does not answer                                  *)
SendHangs(s) ==
    /\ tasks[s].pc = "send"
    /\ tasks' = [tasks EXCEPT ![s].pc = "stuck"]
    /\ UNCHANGED <<queues, bodies, used, now, cert, lastOp, mxrun, retries, poolVars, sweep, flight, sendrun>>

(* The match on the outcome: move_to, write_ctx or remove_both *)
Place(s) ==
    /\ tasks[s].pc = "place"
    /\ \E p \in {place(queues, bodies, Current(s), tasks[s].ctx, tasks[s].outcome)} :
          /\ queues' = p.queues
          /\ bodies' = p.bodies
    /\ tasks' = [tasks EXCEPT ![s] =
                    [Returned(@, "ok") EXCEPT !.placed = @ \cup {Current(s)},
                                        !.touched = TRUE]]
    /\ UNCHANGED <<used, now, cert, lastOp, mxrun, retries, poolVars, sweep, flight, sendrun>>

NextOverlap ==
    \E s \in SweepIds :
        \/ SweepTick(s)
        \/ GetCtx(s)
        \/ GetMsg(s)
        \/ SplitAndSortAndSend(s)
        \/ SendHangs(s)
        \/ Place(s)

----------------------------------------------------------------------------
(* Initial state: empty queues, the clock at 0 *)

NoRun == [pc |-> "idle", answer |-> <<>>, outs |-> <<>>, rcpt |-> <<>>,
          error |-> NoError, attempts |-> <<>>]

Init ==
    /\ queues = [q \in QueueID |-> <<>>]
    /\ bodies = {}
    /\ used = {}
    /\ now = 0
    /\ cert = TRUE
    /\ lastOp = Idle
    /\ mxrun = NoRun
    /\ retries = [m \in MsgIds |-> 0]
    /\ PoolInit
    /\ sweep = NoSweep
    /\ flight = NoFlight
    /\ sendrun = NoSend
    /\ tasks = NoTasks

(* A message is accepted: its context and body are written (write_both) to  *)
(* the Deliver queue, or to the Deferred queue as the tests of the deferred *)
(* handler do.                                                              *)
WriteBoth(q, m, ctx) ==
    /\ m \notin used
    /\ queues' = write_to_queue(queues, q, m, ctx)
    /\ bodies' = bodies \cup {m}
    /\ used' = used \cup {m}
    /\ lastOp' = Idle
    /\ UNCHANGED <<now, cert, mxrun, retries, poolVars, sweep, flight, sendrun, tasks>>

(* After the send r of the context pre: the context reduced to the          *)
(* recipients send_email returns is copied by move_to_queue and the message *)
(* is removed from Deliver.                                                 *)
after_delivery(qs, bs, m, pre, r, t) ==
    LET q2 == remove(move_to_queue(qs, m, r.rcpt), "Deliver", m)
    IN  [queues |-> q2,
         bodies |-> IF \E q \in QueueID : In(q2, q, m) THEN bs ELSE bs \ {m},
         op     |-> Op("deliver", m, TRUE, TRUE, t, pre, r.triage, r.sends, r.handed)]

(* handle_one_in_delivery_queue: the message is read from Deliver and sent  *)
handle_one_in_delivery_queue(qs, bs, m, e, written, hasCert, t) ==
    after_delivery(qs, bs, m, qs["Deliver"][m],
                   send_email(qs["Deliver"][m],
                              [d \in Domains |-> e[d].answer],
                              [d \in Domains |-> e[d].outs], written, hasCert, t),
                   t)

HandleOneInDeliveryQueue(m) ==
    /\ In(queues, "Deliver", m)
    /\ \E e \in Envs(queues["Deliver"][m]) :
       \E written \in SUBSET MaildirAddrs(queues["Deliver"][m]) :
       \E h \in {handle_one_in_delivery_queue(queues, bodies, m, e, written, cert, now)} :
              /\ queues' = h.queues
              /\ bodies' = h.bodies
              /\ lastOp' = [h.op EXCEPT !.env = e]
    /\ UNCHANGED <<used, now, cert, mxrun, retries, poolVars, sweep, flight, sendrun, tasks>>

(* The match on the outcome of the retry r, and the record of the retry *)
after_retry(qs, bs, m, f, pre, r) ==
    LET p == place(qs, bs, m, r.rcpt, r.outcome)
    IN  [queues |-> p.queues, bodies |-> p.bodies,
         op |-> Op("deferred", m, TRUE, TRUE, f, pre, r.rcpt, r.sends, r.handed)]

(* Variant of handle_one_in_deferred_queue in which the readiness guard is  *)
(* evaluated after the retry was made                                       *)
handle_one_in_deferred_queue_late_guard(qs, bs, m, f, e, written, hasCert, t) ==
    IF ~In(qs, "Deferred", m)
    THEN [queues |-> qs, bodies |-> bs,
          op |-> Op("deferred", m, FALSE, FALSE, f, <<>>, <<>>, {}, {})]
    ELSE [after_retry(qs, bs, m, f, qs["Deferred"][m],
                      split_and_sort_and_send(qs["Deferred"][m],
                          [d \in Domains |-> e[d].answer],
                          [d \in Domains |-> e[d].outs], written, hasCert, t))
             EXCEPT !.op.ready = ~not_ready(qs["Deferred"][m], f)]

handle_one_in_deferred_queue(qs, bs, m, f, e, written, hasCert, t) ==
    IF ~In(qs, "Deferred", m)
    THEN [queues |-> qs, bodies |-> bs,
          op |-> Op("deferred", m, FALSE, FALSE, f, <<>>, <<>>, {}, {})]
    ELSE LET pre == qs["Deferred"][m] IN
         IF not_ready(pre, f)
         THEN [queues |-> qs, bodies |-> bs,
               op |-> Op("deferred", m, TRUE, FALSE, f, pre, pre, {}, {})]
         ELSE after_retry(qs, bs, m, f, pre,
                          split_and_sort_and_send(pre,
                              [d \in Domains |-> e[d].answer],
                              [d \in Domains |-> e[d].outs], written, hasCert, t))

(* The recipients a retry at sweep time f dispatches: none when the message *)
(* is absent or skipped                                                     *)
SendableOf(qs, m, f) ==
    IF In(qs, "Deferred", m) /\ ~not_ready(qs["Deferred"][m], f)
    THEN SelectSeq(qs["Deferred"][m], LAMBDA r : is_sendable(r.email_status))
    ELSE <<>>

HandleOneInDeferredQueue(m, f) ==
    /\ m \in used
    /\ \E e \in Envs(SendableOf(queues, m, f)) :
       \E written \in SUBSET MaildirAddrs(SendableOf(queues, m, f)) :
       \E h \in {handle_one_in_deferred_queue(queues, bodies, m, f, e, written, cert, now)} :
              /\ queues' = h.queues
              /\ bodies' = h.bodies
              /\ lastOp' = [h.op EXCEPT !.env = e]
    /\ UNCHANGED <<used, now, cert, mxrun, retries, poolVars, sweep, flight, sendrun, tasks>>

Tick ==
    /\ now < MaxTime
    /\ now' = now + 1
    /\ lastOp' = Idle
    /\ UNCHANGED <<queues, bodies, used, cert, mxrun, retries, poolVars, sweep, flight, sendrun, tasks>>

Next ==
    \/ \E q \in {"Deliver", "Deferred"}, m \in MsgIds, ctx \in RcptLists : WriteBoth(q, m, ctx)
    \/ \E m \in MsgIds : HandleOneInDeliveryQueue(m)
    \/ \E m \in MsgIds, f \in {0, now} : HandleOneInDeferredQueue(m, f)
    \/ Tick

Spec == Init /\ [][Next]_vars

----------------------------------------------------------------------------
(* SpecMx: one run of Deliver::deliver_one_domain for the group of domain   *)
(* d1, on every MX answer of at most MaxMx records, every outcome of the    *)
(* sends, with and without a certificate.                                   *)

MxRecords == [exchange : Hosts \cup {NullMX}, preference : Prefs]
MxAnswers == {MxErr} \cup UNION {[1..n -> MxRecords] : n \in 0..MaxMx}

OldError == [timestamp |-> 0, variant |-> DnsRecord]
MxGroups ==
    {<<[Rcpt("a@d1", "Deliver") EXCEPT !.email_status = st], Rcpt("b@d1", "Deliver")>> :
        st \in {Waiting, [kind |-> "HeldBack", errors |-> <<OldError>>]}}

InitMx ==
    /\ queues = [q \in QueueID |-> <<>>]
    /\ bodies = {}
    /\ used = {}
    /\ now = 1
    /\ cert \in BOOLEAN
    /\ lastOp = Idle
    /\ mxrun \in [pc : {"start"}, answer : MxAnswers, outs : [1..MaxMx -> BOOLEAN],
                  rcpt : MxGroups, error : {NoError}, attempts : {<<>>}]
    /\ retries = [m \in MsgIds |-> 0]
    /\ PoolInit
    /\ sweep = NoSweep
    /\ flight = NoFlight
    /\ sendrun = NoSend
    /\ tasks = NoTasks

DeliverOneDomain ==
    /\ mxrun.pc = "start"
    /\ LET r == deliver_one_domain("d1", mxrun.rcpt, mxrun.answer, mxrun.outs, cert, now)
       IN  mxrun' = [mxrun EXCEPT !.pc = "done", !.rcpt = r.rcpt,
                                  !.error = r.error, !.attempts = r.attempts]
    /\ UNCHANGED <<queues, bodies, used, now, cert, lastOp, retries, poolVars, sweep, flight, sendrun, tasks>>

NextMx == DeliverOneDomain

SpecMx == InitMx /\ [][NextMx]_vars

----------------------------------------------------------------------------
(* SpecRetry: a message is in the Deferred queue and the destination of     *)
(* every recipient keeps failing transiently: the resolution of every       *)
(* domain fails and no maildir can be written.  The timer of start fires    *)
(* every deferred_retry_period and each tick sweeps the Deferred queue.     *)

RetryLists == {ctx \in RcptLists :
                 /\ ctx # <<>>
                 /\ \A i \in 1..Len(ctx) : ctx[i].transfer_method # "None"}

InitRetry ==
    /\ \E ctx \in RetryLists :
          queues = write_to_queue([q \in QueueID |-> <<>>], "Deferred", "m1", ctx)
    /\ bodies = {"m1"}
    /\ used = {"m1"}
    /\ now = 0
    /\ cert = TRUE
    /\ lastOp = Idle
    /\ mxrun = NoRun
    /\ retries = [m \in MsgIds |-> 0]
    /\ PoolInit
    /\ sweep = NoSweep
    /\ flight = NoFlight
    /\ sendrun = NoSend
    /\ tasks = NoTasks

(* One tick of flush_deferred_interval and the sweep it starts:             *)
(* flush_deferred_queue hands every listed message to the handler with the  *)
(* time of the sweep.                                                       *)
FlushDeferredQueue ==
    /\ now < MaxSweeps * deferred_retry_period
    /\ now' = now + deferred_retry_period
    /\ \E m \in MsgIds :
          /\ In(queues, "Deferred", m)
          /\ \E h \in {handle_one_in_deferred_queue(queues, bodies, m, now',
                                                    Unreachable, {}, cert, now')} :
                /\ queues' = h.queues
                /\ bodies' = h.bodies
                /\ lastOp' = h.op
                /\ retries' = [retries EXCEPT ![m] = IF h.op.ready THEN @ + 1 ELSE @]
    /\ UNCHANGED <<used, cert, mxrun, poolVars, sweep, flight, sendrun, tasks>>

NextRetry == FlushDeferredQueue

SpecRetry == InitRetry /\ [][NextRetry]_vars

----------------------------------------------------------------------------
(* SpecPool: every caller makes one call of Sender::send on the same Sender *)

InitPool ==
    /\ queues = [q \in QueueID |-> <<>>]
    /\ bodies = {}
    /\ used = {}
    /\ now = 0
    /\ cert = TRUE
    /\ lastOp = Idle
    /\ mxrun = NoRun
    /\ retries = [m \in MsgIds |-> 0]
    /\ PoolInit
    /\ sweep = NoSweep
    /\ flight = NoFlight
    /\ sendrun = NoSend
    /\ tasks = NoTasks

SpecPool == InitPool /\ [][NextPool]_vars

----------------------------------------------------------------------------
(* SpecSweep *)

InitSweep ==
    /\ queues = [q \in QueueID |-> <<>>]
    /\ bodies = {}
    /\ used = {}
    /\ now = 0
    /\ cert = TRUE
    /\ lastOp = Idle
    /\ mxrun = NoRun
    /\ retries = [m \in MsgIds |-> 0]
    /\ PoolInit
    /\ sweep = NoSweep
    /\ flight = NoFlight
    /\ sendrun = NoSend
    /\ tasks = NoTasks

SpecSweep == InitSweep /\ [][NextSweep]_vars

----------------------------------------------------------------------------
(* Properties of the sweep *)

ValidIdx(l) == {k \in 1..Len(l) : l[k].id \notin {"invalid", "missing"}}
FailingIdx(l) == {k \in 1..Len(l) : l[k].id \in {"invalid", "missing"}
                                     \/ l[k].fault # "none"}

(* C15: the loop of start, once entered, is never left, whatever fails in a *)
(* delivery task or in a sweep; and a sweep that listed the queue ends      *)
(* having handed every entry with a valid identifier to the handler and     *)
(* logged every failing entry, however many entries failed before it.       *)
C15_FailuresSkipOneItem ==
    [][/\ sweep.start = "select" => sweep'.start = "select"
       /\ (sweep.pc = "loop" /\ sweep'.pc = "done")
             => /\ Range(sweep'.handled) = ValidIdx(sweep'.queued)
                /\ Range(sweep'.logged) = FailingIdx(sweep'.queued)]_vars

(* a sweep ended in which an entry was handled after two entries failed,    *)
(* and a delivery task failed                                               *)
C15_Witness ==
    /\ sweep.start = "select" /\ sweep.pc = "done" /\ sweep.task = "error"
    /\ Len(sweep.queued) = 3
    /\ sweep.queued[1].id = "invalid"
    /\ sweep.queued[2].fault = "get_ctx"
    /\ sweep.queued[3] = [id |-> "m2", fault |-> "none"]
    /\ sweep.handled = <<2, 3>>

----------------------------------------------------------------------------
(* Properties of the retries *)

(* C11: a deferred message is never retried more than deferred_retry_max    *)
(* times: when every retry fails transiently it has left the Deferred queue *)
(* for the Dead queue by then.                                              *)
C11_RetriesBounded ==
    \A m \in MsgIds : retries[m] <= deferred_retry_max

----------------------------------------------------------------------------
(* SpecJoin: Deliver::deliver with recipients of both domains, every list   *)
(* of at most MaxMx candidates per domain                                   *)

InitJoin ==
    /\ queues = [q \in QueueID |-> <<>>]
    /\ bodies = {}
    /\ used = {}
    /\ now = 0
    /\ cert = TRUE
    /\ lastOp = Idle
    /\ mxrun = NoRun
    /\ retries = [m \in MsgIds |-> 0]
    /\ PoolInit
    /\ sweep = NoSweep
    /\ flight \in [Domains -> {[NoLoop EXCEPT !.pc = "loop", !.mxs = l] : l \in MxLists}]
    /\ sendrun = NoSend
    /\ tasks = NoTasks

SpecJoin == InitJoin /\ [][NextJoin]_vars

(* C24: in every group at most one send is awaited at a time, and a send to *)
(* a candidate has started only if the send to every candidate before it    *)
(* has completed with a failure.                                            *)
C24_SequentialWithinGroup ==
    \A d \in Domains :
        /\ Cardinality(flight[d].inflight) <= 1
        /\ \A k \in Started(flight[d]) : \A j \in 1..(k - 1) : j \in flight[d].failed

(* the groups of the two domains each have a send in flight, one of them to *)
(* its second candidate                                                     *)
C24_Witness ==
    /\ flight["d1"].inflight = {2} /\ flight["d1"].failed = {1}
    /\ flight["d2"].inflight = {1}

----------------------------------------------------------------------------
(* SpecSend: one run of send_email on every list of at most MaxRcpt         *)
(* recipients, every answer of the destinations, with and without an error  *)
(* of the Forward transport                                                 *)

InitSend ==
    /\ queues = [q \in QueueID |-> <<>>]
    /\ bodies = {}
    /\ used = {}
    /\ now = 1
    /\ cert = TRUE
    /\ lastOp = Idle
    /\ mxrun = NoRun
    /\ retries = [m \in MsgIds |-> 0]
    /\ PoolInit
    /\ sweep = NoSweep
    /\ flight = NoFlight
    /\ tasks = NoTasks
    /\ \E to \in SendLists :
       \E e \in Envs(to), w \in SUBSET MaildirAddrs(to), o \in SendOrders,
          x \in SUBSET ({"Forward"} \cap {to[i].transfer_method : i \in 1..Len(to)}) :
          sendrun = [NoSend EXCEPT !.pc = "send_email", !.to = to, !.env = e,
                                   !.written = w, !.order = o, !.errs = x]

SpecSend == InitSend /\ [][NextSend]_vars

(* SpecDeliver: one run of Deliver::deliver *)

InitDeliver ==
    /\ queues = [q \in QueueID |-> <<>>]
    /\ bodies = {}
    /\ used = {}
    /\ now = 1
    /\ cert = TRUE
    /\ lastOp = Idle
    /\ mxrun = NoRun
    /\ retries = [m \in MsgIds |-> 0]
    /\ PoolInit
    /\ sweep = NoSweep
    /\ flight = NoFlight
    /\ tasks = NoTasks
    /\ \E to \in DeliverLists : \E e \in Envs(to) :
          sendrun = [NoSend EXCEPT !.pc = "deliver", !.to = to, !.env = e]

SpecDeliver == InitDeliver /\ [][NextDeliver]_vars

(* SpecOverlap: the Deferred queue holds m1, whose recipient is HeldBack    *)
(* since time 0, and m2, whose recipient is Waiting; the clock is at the    *)
(* first time at which m1 is ready.                                         *)

DeferredAtStart ==
    [m \in Range(MsgSeq) |->
        IF m = "m1"
        THEN <<[Rcpt("a@d1", "Deliver") EXCEPT
                   !.email_status = held_back(Waiting, DnsRecord, 0)]>>
        ELSE <<Rcpt("c@d2", "Deliver")>>]

InitOverlap ==
    /\ queues = [q \in QueueID |-> IF q = "Deferred" THEN DeferredAtStart ELSE <<>>]
    /\ bodies = {"m1", "m2"}
    /\ used = {"m1", "m2"}
    /\ now = RetryDelay
    /\ cert = TRUE
    /\ lastOp = Idle
    /\ mxrun = NoRun
    /\ retries = [m \in MsgIds |-> 0]
    /\ PoolInit
    /\ sweep = NoSweep
    /\ flight = NoFlight
    /\ sendrun = NoSend
    /\ tasks = NoTasks

SpecOverlap == InitOverlap /\ [][NextOverlap]_vars

----------------------------------------------------------------------------
(* Properties of the connection pool (SpecPool) *)

(* the call of c got a handle from the map and sends, or has sent, with it *)
Sending(c) == calls[c].pc \in {"send", "done"} /\ calls[c].sender # NoHandle

SendingWith(k) == {c \in Callers : Sending(c) /\ calls[c].params = k}

(* C12 as stated: for any two calls with equal parameters, sequential or    *)
(* concurrent, the transport is built exactly once and both calls send      *)
(* through the same handle.                                                 *)
C12_BuiltOnceSameHandle ==
    \A c1 \in Callers, c2 \in Callers :
        (c1 # c2 /\ Sending(c1) /\ Sending(c2) /\ calls[c1].params = calls[c2].params)
            => /\ built[calls[c1].params] = 1
               /\ calls[c1].sender = calls[c2].sender

(* every call made so far with the parameters k began while no other call   *)
(* with k was in progress                                                   *)
Sequential(k) ==
    \A c \in Callers : (calls[c].pc # "idle" /\ calls[c].params = k) => calls[c].alone

(* C12: when the calls with equal parameters are sequential (each begins    *)
(* after the previous one returned), the transport is built exactly once    *)
(* and every call sends through that same handle.                           *)
C12_SequentialBuiltOnce ==
    \A k \in Params :
        (Sequential(k) /\ SendingWith(k) # {})
            => /\ built[k] = 1
               /\ \A c \in SendingWith(k) : calls[c].sender = <<k, 1>>
               /\ senders[k] = <<k, 1>>

(* two sequential calls with the same parameters have both sent *)
C12_Witness ==
    \E c1 \in Callers, c2 \in Callers :
        /\ c1 # c2
        /\ calls[c1].pc = "done" /\ calls[c2].pc = "done"
        /\ calls[c1].params = "k1" /\ calls[c2].params = "k1"
        /\ calls[c1].alone /\ calls[c2].alone
        /\ calls[c1].sender = calls[c2].sender /\ calls[c1].sender # NoHandle
        /\ built["k1"] = 1

(* no call with the parameters k is between its lookup and its read *)
Settled(k) ==
    \A c \in Callers :
        calls[c].params = k => calls[c].pc \notin {"check", "build", "insert", "get"}

(* C13: once the callers that raced on the parameters k have all read the   *)
(* map, each of them sends through the handle the map stores for k.         *)
C13_AllUseStoredHandle ==
    \A k \in Params :
        Settled(k) => \A c \in SendingWith(k) : calls[c].sender = senders[k]

BuildFailed(c) == calls[c].result = "build error"

(* C28: a call whose build fails returns an error without a send and leaves *)
(* the map as it was, with no entry for its parameters; a call that looks   *)
(* the same parameters up after such a failure finds no entry and goes on   *)
(* to build again.                                                          *)
C28_BuildFailureNotCached ==
    [][\A c \in Callers :
         /\ (calls[c].pc = "build" /\ calls'[c].pc # "build"
                /\ ~build_sender_ok(calls[c].params))
               => /\ calls'[c].pc = "done"
                  /\ BuildFailed(c)'
                  /\ calls'[c].sender = NoHandle
                  /\ senders' = senders
                  /\ calls[c].params \notin DOMAIN senders'
         /\ (calls[c].pc = "check" /\ calls'[c].pc # "check"
                /\ \E d \in Callers \ {c} :
                      BuildFailed(d) /\ calls[d].params = calls[c].params)
               => calls'[c].pc = "build"]_vars

(* two calls with the same parameters, one after the other: both builds     *)
(* failed and the map is empty                                              *)
C28_Witness ==
    \E c1 \in Callers, c2 \in Callers :
        /\ c1 # c2
        /\ BuildFailed(c1) /\ BuildFailed(c2)
        /\ calls[c1].params = calls[c2].params
        /\ calls[c1].alone /\ calls[c2].alone
        /\ senders = <<>>

(* C29: no step removes a key from the map, and no call panics in its final *)
(* lookup.                                                                  *)
C29_KeysOnlyGrow ==
    [][/\ DOMAIN senders \subseteq DOMAIN senders'
       /\ \A c \in Callers : calls'[c].result # "panic"]_vars

(* two calls in progress at the same time, with different parameters, have  *)
(* both read their handle                                                   *)
C29_Witness ==
    \E c1 \in Callers, c2 \in Callers :
        /\ calls[c1].params = "k1" /\ calls[c2].params = "k2"
        /\ calls[c1].pc = "send" /\ calls[c2].pc = "send"
        /\ DOMAIN senders = {"k1", "k2"}

(* Every other call is sending, or not in progress *)
OthersSending(c) ==
    \A d \in Callers \ {c} : calls[d].pc \in {"idle", "send", "done"}

(* C30: a call that is sending holds no guard of the map; the write guard   *)
(* is held only by a call about to insert; and while every other call is    *)
(* sending, a call can take the read guard for its lookup and the write     *)
(* guard for its insert.                                                    *)
C30_NoLockWhileSending ==
    \A c \in Callers :
        /\ calls[c].pc = "send" => calls[c].lock = "none"
        /\ calls[c].lock = "write" => calls[c].pc = "insert"
        /\ (OthersSending(c) /\ calls[c].pc \in {"check", "get"}) => ReadFree(c)
        /\ (OthersSending(c) /\ calls[c].pc = "insert") => WriteFree(c)

(* one call is sending while another holds the write guard for its insert *)
C30_Witness ==
    \E c1 \in Callers, c2 \in Callers :
        /\ calls[c1].pc = "send"
        /\ calls[c2].pc = "insert" /\ calls[c2].lock = "write"

----------------------------------------------------------------------------
(* Properties of the queue placement *)

(* The last step was a delivery pass or a deferred retry that ran *)
Pass == lastOp.kind \in {"deliver", "deferred"} /\ lastOp.found /\ lastOp.ready

QueuesOf(m) == {q \in QueueID : In(queues, q, m)}

AllSent(rcpt) == \A i \in 1..Len(rcpt) : rcpt[i].email_status.kind = "Sent"

(* C1: after a delivery pass or a deferred retry, a message that has a      *)
(* recipient Failed or with transfer method None is in the Dead queue and   *)
(* in no other queue.                                                       *)
C1_DeadAndOnlyDead ==
    (Pass /\ AnyFailedOrNone(lastOp.post)) => QueuesOf(lastOp.msg) = {"Dead"}

(* C2: after a delivery pass or a deferred retry, a message that has a      *)
(* HeldBack recipient and no recipient Failed or with transfer method None  *)
(* is in the Deferred queue and in no other queue.                          *)
C2_DeferredAndOnlyDeferred ==
    (Pass /\ AnyHeldBack(lastOp.post) /\ ~AnyFailedOrNone(lastOp.post))
        => QueuesOf(lastOp.msg) = {"Deferred"}

C2_Witness ==
    /\ Pass
    /\ AnyHeldBack(lastOp.post) /\ ~AnyFailedOrNone(lastOp.post)
    /\ \E i \in 1..Len(lastOp.post) : lastOp.post[i].email_status.kind = "Sent"
    /\ lastOp.kind = "deferred"
    /\ QueuesOf(lastOp.msg) = {"Deferred"}

(* C3: after a delivery pass or a deferred retry in which every recipient   *)
(* of the message (it has at least one) ends Sent, the message is in none   *)
(* of the queues and its body is removed.                                   *)
C3_AllSentRemoved ==
    (Pass /\ lastOp.post # <<>> /\ AllSent(lastOp.post))
        => QueuesOf(lastOp.msg) = {} /\ lastOp.msg \notin bodies

C3_Witness ==
    /\ Pass /\ lastOp.kind = "deferred"
    /\ Len(lastOp.post) = 2 /\ AllSent(lastOp.post)
    /\ QueuesOf(lastOp.msg) = {} /\ lastOp.msg \notin bodies

(* C4: a message identifier is in at most one queue. *)
C4_AtMostOneQueue == \A m \in MsgIds : Cardinality(QueuesOf(m)) <= 1

(* C5 as stated: after a pass every recipient, whatever its transfer        *)
(* method, is Sent, HeldBack or Failed.                                     *)
C5_NoneLeftWaiting ==
    Pass => \A i \in 1..Len(lastOp.post) :
                lastOp.post[i].email_status.kind \in {"Sent", "HeldBack", "Failed"}

(* C5: after a delivery pass or a deferred retry, every recipient whose     *)
(* transfer method is not None is Sent, HeldBack or Failed; a recipient     *)
(* with transfer method None keeps the status it had.                       *)
C5_ResolvedUnlessNone ==
    Pass => \A i \in 1..Len(lastOp.post) :
              /\ lastOp.post[i].transfer_method # "None"
                   => lastOp.post[i].email_status.kind \in {"Sent", "HeldBack", "Failed"}
              /\ lastOp.post[i].transfer_method = "None"
                   => \E j \in 1..Len(lastOp.pre) : lastOp.pre[j] = lastOp.post[i]

C5_Witness ==
    /\ Pass /\ lastOp.kind = "deliver"
    /\ \E i, j \in 1..Len(lastOp.post) :
          /\ lastOp.post[i].transfer_method = "None"
          /\ lastOp.post[i].email_status.kind = "Waiting"
          /\ lastOp.post[j].transfer_method = "Maildir"
          /\ lastOp.post[j].email_status.kind = "HeldBack"

(* The deferred handler found the message and skipped it *)
Skipped == lastOp.kind = "deferred" /\ lastOp.found /\ ~lastOp.ready

(* C21: a step in which the deferred handler finds the message not          *)
(* retry-ready (the guard not_ready holds of the stored context) reads no   *)
(* body, makes no send, hands no recipient to a transport, changes no       *)
(* recipient status and leaves every queue and the bodies as they were.     *)
C21_SkipHasNoEffect ==
    [][(Skipped' /\ lastOp' # lastOp)
         => /\ queues' = queues
            /\ bodies' = bodies
            /\ ~lastOp'.read_msg
            /\ lastOp'.sends = {} /\ lastOp'.handed = {}
            /\ lastOp'.post = lastOp'.pre
            /\ lastOp'.pre = queues["Deferred"][lastOp'.msg]
            /\ not_ready(lastOp'.pre, lastOp'.flushing_at)]_vars

(* a held-back Deliver recipient whose destination is unreachable was       *)
(* skipped by a sweep before its retry time                                 *)
C21_Witness ==
    /\ Skipped
    /\ QueuesOf(lastOp.msg) = {"Deferred"}
    /\ \E i \in 1..Len(lastOp.pre) :
          /\ lastOp.pre[i].transfer_method = "Deliver"
          /\ lastOp.pre[i].email_status.kind = "HeldBack"
          /\ lastOp.pre[i].email_status.errors # <<>>

(* The last step was a retry of the deferred handler *)
Retried == Pass /\ lastOp.kind = "deferred"

StillHeldBack ==
    \E i \in 1..Len(lastOp.post) :
        /\ lastOp.post[i].address \in lastOp.handed
        /\ lastOp.post[i].email_status.kind = "HeldBack"

(* C18 as stated: after a retry that leaves a recipient HeldBack the        *)
(* message is in Deferred and neither in Deliver nor in Dead.               *)
C18_HeldBackStaysDeferred ==
    (Retried /\ StillHeldBack)
        => /\ In(queues, "Deferred", lastOp.msg)
           /\ ~In(queues, "Deliver", lastOp.msg)
           /\ ~In(queues, "Dead", lastOp.msg)

(* C18: after a retry that leaves a recipient HeldBack and no recipient     *)
(* Failed or with the transfer method None, the context with the new        *)
(* statuses is stored in Deferred, the message is in no other queue and its *)
(* body is kept.                                                            *)
C18_RewrittenInDeferred ==
    (Retried /\ StillHeldBack /\ ~AnyFailedOrNone(lastOp.post))
        => /\ QueuesOf(lastOp.msg) = {"Deferred"}
           /\ queues["Deferred"][lastOp.msg] = lastOp.post
           /\ lastOp.msg \in bodies

(* a held-back recipient was retried, failed again, and the stored context  *)
(* carries its longer history                                               *)
C18_Witness ==
    /\ Retried /\ StillHeldBack
    /\ QueuesOf(lastOp.msg) = {"Deferred"}
    /\ \E i \in 1..Len(lastOp.post) :
          /\ Len(lastOp.pre[i].email_status.errors) = 1
          /\ Len(queues["Deferred"][lastOp.msg][i].email_status.errors) = 2

(* C19: after the deferred handler processed a message of Deferred whose    *)
(* recipient list is empty, the message is in Dead and not in Deferred, and *)
(* its body is kept (it is not removed like a message whose recipients are  *)
(* all Sent).                                                               *)
C19_EmptyMovedToDead ==
    (Retried /\ lastOp.pre = <<>>)
        => /\ QueuesOf(lastOp.msg) = {"Dead"}
           /\ queues["Dead"][lastOp.msg] = <<>>
           /\ lastOp.msg \in bodies

C19_Witness ==
    /\ Retried /\ lastOp.pre = <<>> /\ lastOp.sends = {}
    /\ In(queues, "Dead", lastOp.msg) /\ ~In(queues, "Deferred", lastOp.msg)

NoneAddrs == {lastOp.post[i].address :
                i \in {j \in 1..Len(lastOp.post) : lastOp.post[j].transfer_method = "None"}}

(* C20: a pass hands no recipient whose transfer method is None to a        *)
(* transport and puts none in the envelope of a send, and after it a        *)
(* message that has such a recipient is in the Dead queue.                  *)
C20_NoneNotSentAndDead ==
    Pass => /\ NoneAddrs \cap (lastOp.handed \cup UNION {x.envelope : x \in lastOp.sends}) = {}
            /\ NoneAddrs # {} => In(queues, "Dead", lastOp.msg)

(* a delivery pass sent to one recipient, skipped the None one, and the     *)
(* message is in Dead                                                       *)
C20_Witness ==
    /\ Pass /\ lastOp.kind = "deliver"
    /\ NoneAddrs # {} /\ lastOp.handed # {} /\ lastOp.sends # {}
    /\ \E i \in 1..Len(lastOp.post) : lastOp.post[i].email_status.kind = "Sent"
    /\ In(queues, "Dead", lastOp.msg)

----------------------------------------------------------------------------
(* Properties of the recipient groups *)

(* the recipients the last pass handed to the SMTP delivery *)
Delivered == {i \in 1..Len(lastOp.post) :
                /\ lastOp.post[i].transfer_method = "Deliver"
                /\ lastOp.post[i].address \in lastOp.handed}

Accepts(sc)  == sc.answer # MxErr /\ sc.answer[1].exchange # NullMX /\ sc.outs[1]
HasNull(sc)  == sc.answer # MxErr /\ sc.answer[1].exchange = NullMX

(* C14: after a pass, every recipient handed to the SMTP delivery has the   *)
(* status the attempt on its own domain produced, whatever happened to the  *)
(* other domains: Sent when its domain accepted, Failed with HasNullMX of   *)
(* its own domain when its domain has a null MX, HeldBack with a DnsRecord  *)
(* error of this pass when the resolution of its domain failed.             *)
C14_GroupsIndependent ==
    Pass => \A i \in Delivered :
        LET r  == lastOp.post[i]
            st == r.email_status
            sc == lastOp.env[domain(r.address)]
        IN  /\ Accepts(sc) => st = sent
            /\ HasNull(sc) => st = failed(HasNullMX(domain(r.address)), now)
            /\ sc.answer = MxErr =>
                  /\ st.kind = "HeldBack"
                  /\ st.errors[Len(st.errors)] = [timestamp |-> now, variant |-> DnsRecord]

(* one domain fails for good, another one is held back or accepts *)
C14_Witness ==
    /\ Pass
    /\ \E i \in Delivered, j \in Delivered :
          /\ lastOp.post[i].address = "a@d1" /\ lastOp.post[j].address = "c@d2"
          /\ lastOp.post[i].email_status.kind = "Failed"
          /\ lastOp.post[j].email_status.kind = "Sent"

(* the recipients of domain d the last pass handed to the SMTP delivery *)
GroupOf(d) == {i \in Delivered : domain(lastOp.post[i].address) = d}

(* the sends of the last pass that carry a recipient of the group of d *)
SendsTo(d) ==
    {x \in lastOp.sends :
        /\ x.relay_target # "maildir"
        /\ \E i \in GroupOf(d) : lastOp.post[i].address \in x.envelope}

ResolutionFailed(d) == GroupOf(d) # {} /\ lastOp.env[d].answer = MxErr

AllHeldBackDns(d) ==
    \A i \in GroupOf(d) :
        LET st == lastOp.post[i].email_status IN
        /\ st.kind = "HeldBack"
        /\ st.errors[Len(st.errors)] = [timestamp |-> now, variant |-> DnsRecord]

----------------------------------------------------------------------------
(* Properties of the recipients' statuses *)

StatusOf(rcpt, a) ==
    {rcpt[i].email_status.kind : i \in {j \in 1..Len(rcpt) : rcpt[j].address = a}}

(* C6: a recipient stored as Sent is Sent in every later stored context of  *)
(* its message, in whichever queue.                                         *)
C6_SentNeverChanges ==
    [][\A m \in MsgIds, q1 \in QueueID, q2 \in QueueID :
          (In(queues, q1, m) /\ In(queues', q2, m)) =>
             \A a \in Addrs :
                ("Sent" \in StatusOf(queues[q1][m], a))
                   => StatusOf(queues'[q2][m], a) \subseteq {"Sent"}]_vars

C6_Witness ==
    /\ Pass /\ lastOp.kind = "deferred"
    /\ lastOp.sends # {}
    /\ \E a \in Addrs : /\ "Sent" \in StatusOf(lastOp.pre, a)
                        /\ "Sent" \in StatusOf(lastOp.post, a)
    /\ \E a \in Addrs : /\ "HeldBack" \in StatusOf(lastOp.pre, a)
                        /\ "HeldBack" \in StatusOf(lastOp.post, a)
    /\ In(queues, "Deferred", lastOp.msg)

SentBefore == {a \in Addrs : "Sent" \in StatusOf(lastOp.pre, a)}
Enveloped  == UNION {s.envelope : s \in lastOp.sends}

(* C7: no handler invocation hands a recipient that was already Sent to a   *)
(* transport or puts it in the envelope of a send; an invocation on a       *)
(* message that is no longer stored (all its recipients were Sent) sends    *)
(* nothing.                                                                 *)
C7_SentNotDispatched ==
    /\ SentBefore \cap (Enveloped \cup lastOp.handed) = {}
    /\ (lastOp.kind = "deferred" /\ ~lastOp.found) => lastOp.sends = {}

C7_Witness ==
    /\ Pass /\ lastOp.kind = "deferred"
    /\ SentBefore # {}
    /\ Enveloped # {}
    /\ SentBefore \cap Enveloped = {}

C7_WitnessGone ==
    /\ lastOp.kind = "deferred" /\ ~lastOp.found
    /\ lastOp.msg \in used /\ QueuesOf(lastOp.msg) = {}

(* the history recipient a had before the last pass *)
HistoryBefore(a) ==
    LET S == {lastOp.pre[j].email_status.errors :
                j \in {k \in 1..Len(lastOp.pre) :
                         /\ lastOp.pre[k].address = a
                         /\ lastOp.pre[k].email_status.kind = "HeldBack"}}
    IN  IF S = {} THEN <<>> ELSE CHOOSE h \in S : TRUE

(* C16: a pass that leaves a recipient it handed to a transport HeldBack    *)
(* has appended exactly one record, with the time of the pass, to the       *)
(* history the recipient had, whichever the transport.                      *)
C16_AppendsOneRecord ==
    Pass => \A i \in 1..Len(lastOp.post) :
        LET r == lastOp.post[i] IN
        (r.address \in lastOp.handed /\ r.email_status.kind = "HeldBack")
            => /\ Len(r.email_status.errors) = Len(HistoryBefore(r.address)) + 1
               /\ SubSeq(r.email_status.errors, 1, Len(HistoryBefore(r.address)))
                     = HistoryBefore(r.address)
               /\ r.email_status.errors[Len(r.email_status.errors)].timestamp = now

----------------------------------------------------------------------------
(* Retry readiness *)

HeldBackIdx(rcpt) == {i \in 1..Len(rcpt) : rcpt[i].email_status.kind = "HeldBack"}

(* every timestamp of the error histories of the held-back recipients *)
AllErrorTimes(rcpt) ==
    UNION {{rcpt[i].email_status.errors[k].timestamp :
               k \in 1..Len(rcpt[i].email_status.errors)} : i \in HeldBackIdx(rcpt)}

(* the timestamp of the most recent error of each held-back recipient *)
LatestErrorTimes(rcpt) ==
    {t \in AllErrorTimes(rcpt) :
        \E i \in HeldBackIdx(rcpt) :
           /\ \E k \in 1..Len(rcpt[i].email_status.errors) :
                 rcpt[i].email_status.errors[k].timestamp = t
           /\ \A k \in 1..Len(rcpt[i].email_status.errors) :
                 rcpt[i].email_status.errors[k].timestamp <= t}

Swept == lastOp.kind = "deferred" /\ lastOp.found

(* The queues a message is in after a retry that left the recipients rcpt *)
PlacementOf(rcpt) ==
    IF rcpt = <<>> \/ AnyFailedOrNone(rcpt) THEN {"Dead"}
    ELSE IF AnyHeldBack(rcpt) THEN {"Deferred"}
    ELSE {}

(* The recipients of rcpt a retry hands to a transport *)
Dispatchable(rcpt) ==
    {rcpt[i].address :
        i \in {j \in 1..Len(rcpt) : /\ rcpt[j].email_status.kind \in {"Waiting", "HeldBack"}
                                    /\ rcpt[j].transfer_method # "None"}}

(* C39: a message of Deferred none of whose held-back recipients has a      *)
(* recorded error is retried at every sweep time: its body is read, every   *)
(* recipient that can still be sent to is handed to its transport, and the  *)
(* message is placed by the statuses the retry leaves.                      *)
C39_NoHistoryAlwaysReady ==
    (Swept /\ AllErrorTimes(lastOp.pre) = {}) =>
        /\ lastOp.ready /\ lastOp.read_msg
        /\ lastOp.handed = Dispatchable(lastOp.pre)
        /\ QueuesOf(lastOp.msg) = PlacementOf(lastOp.post)

(* a message with a waiting recipient, written to Deferred at minute 3, is  *)
(* retried by a sweep whose time is minute 0                                *)
C39_Witness ==
    /\ Swept /\ lastOp.ready
    /\ now = 3 /\ lastOp.flushing_at = 0
    /\ lastOp.pre # <<>>
    /\ \A i \in 1..Len(lastOp.pre) : lastOp.pre[i].email_status = Waiting
    /\ lastOp.handed # {}

(* C10 as stated: the message is retried iff the oldest timestamp of its    *)
(* recipients' error histories plus 5 minutes per held-back recipient is    *)
(* not after the sweep time.                                                *)
C10_ReadyFromOldestError ==
    (Swept /\ AllErrorTimes(lastOp.pre) # {}) =>
        (lastOp.ready <=>
            Min(AllErrorTimes(lastOp.pre))
              + Cardinality(HeldBackIdx(lastOp.pre)) * RetryDelay <= lastOp.flushing_at)

(* C10: the message is retried iff the earliest, over its held-back         *)
(* recipients, of each recipient's most recent error timestamp, plus 5      *)
(* minutes per held-back recipient, is not after the sweep time.            *)
C10_ReadyFromLatestErrors ==
    (Swept /\ AllErrorTimes(lastOp.pre) # {}) =>
        (lastOp.ready <=>
            Min(LatestErrorTimes(lastOp.pre))
              + Cardinality(HeldBackIdx(lastOp.pre)) * RetryDelay <= lastOp.flushing_at)

(* two held-back recipients, last errors at T, retried by the sweep at T+10 *)
C10_Witness ==
    /\ Swept /\ lastOp.ready
    /\ Cardinality(HeldBackIdx(lastOp.pre)) = 2
    /\ LatestErrorTimes(lastOp.pre) # {}
    /\ Min(LatestErrorTimes(lastOp.pre)) + 2 * RetryDelay = lastOp.flushing_at

(* ... and skipped by the sweep one minute earlier *)
C10_WitnessSkipped ==
    /\ Swept /\ ~lastOp.ready
    /\ Cardinality(HeldBackIdx(lastOp.pre)) = 2
    /\ Min(LatestErrorTimes(lastOp.pre)) + 2 * RetryDelay = lastOp.flushing_at + 1

----------------------------------------------------------------------------
(* Properties of one domain group (SpecMx) *)

MxDone     == mxrun.pc = "done"
Resolved   == mxrun.answer # MxErr
Candidates == IF Resolved THEN get_mx_records(mxrun.answer) ELSE <<>>
NullAt     == {i \in 1..Len(Candidates) : Candidates[i].exchange = NullMX}

AllRcpt(kind) == \A i \in 1..Len(mxrun.rcpt) : mxrun.rcpt[i].email_status.kind = kind
LastError(st) == st.errors[Len(st.errors)].variant

(* C8 as stated: a null MX anywhere in the answer makes every recipient of  *)
(* the group Failed with HasNullMX.                                         *)
C8_NullMxAlwaysFails ==
    (MxDone /\ Resolved /\ NullAt # {}) =>
        \A i \in 1..Len(mxrun.rcpt) :
            /\ mxrun.rcpt[i].email_status.kind = "Failed"
            /\ LastError(mxrun.rcpt[i].email_status) = HasNullMX("d1")

(* a candidate ordered before the first null MX accepts the message *)
AcceptedBeforeNull ==
    /\ cert
    /\ \E i \in 1..Len(Candidates) : mxrun.outs[i] /\ \A k \in NullAt : i < k

(* C8: when the answer holds a null MX and no candidate ordered before it   *)
(* accepts the message, every recipient of the group is Failed, never Sent  *)
(* or HeldBack; the error is HasNullMX naming the domain when the null MX   *)
(* is the first candidate or a certificate is configured.  When a candidate *)
(* ordered before it accepts, every recipient is Sent.                      *)
C8_NullMxFailsWhenReached ==
    (MxDone /\ Resolved /\ NullAt # {}) =>
        IF AcceptedBeforeNull
        THEN AllRcpt("Sent")
        ELSE /\ AllRcpt("Failed")
             /\ (cert \/ 1 \in NullAt) =>
                   \A i \in 1..Len(mxrun.rcpt) :
                       LastError(mxrun.rcpt[i].email_status) = HasNullMX("d1")

(* the null MX is second, the first candidate refuses, the group is Failed *)
C8_Witness ==
    /\ MxDone /\ Resolved /\ cert
    /\ Len(Candidates) >= 2 /\ NullAt = {2}
    /\ ~mxrun.outs[1]
    /\ Len(mxrun.attempts) = 1
    /\ AllRcpt("Failed")
    /\ mxrun.error = HasNullMX("d1")

OneDirectAttempt ==
    /\ Len(mxrun.attempts) = 1
    /\ mxrun.attempts[1].relay_target = "d1"
    /\ mxrun.attempts[1].server_name = "d1"

(* C9 as stated: an empty MX answer gives exactly one send, to the domain   *)
(* itself, and no DnsRecord error.                                          *)
C9_EmptyMxOneAttempt ==
    (MxDone /\ mxrun.answer = <<>>) =>
        OneDirectAttempt /\ mxrun.error # DnsRecord

(* C9: with a certificate configured, an empty MX answer gives exactly one  *)
(* send, with relay target and server name equal to the domain, and the     *)
(* outcome is Ok or an Smtp error; without a certificate no send is made    *)
(* and the outcome is TlsNoCertificate.  It is never a DnsRecord error.     *)
C9_EmptyMxOneAttemptWithCert ==
    (MxDone /\ mxrun.answer = <<>>) =>
        /\ mxrun.error # DnsRecord
        /\ cert  => OneDirectAttempt /\ mxrun.error \in {NoError, Smtp}
        /\ ~cert => mxrun.attempts = <<>> /\ mxrun.error = TlsNoCertificate

C9_Witness ==
    /\ MxDone /\ mxrun.answer = <<>> /\ cert
    /\ OneDirectAttempt /\ ~mxrun.attempts[1].ok
    /\ mxrun.error = Smtp
    /\ AllRcpt("HeldBack")


(* The order in which the records of the answer are to be tried: the        *)
(* positions of the answer by ascending preference, equal preferences by    *)
(* ascending position.                                                      *)
AttemptOrder ==
    LET n == Len(mxrun.answer) IN
    CHOOSE p \in [1..n -> 1..n] :
        \A i \in 1..n, j \in 1..n :
            i < j => \/ mxrun.answer[p[i]].preference < mxrun.answer[p[j]].preference
                     \/ /\ mxrun.answer[p[i]].preference = mxrun.answer[p[j]].preference
                        /\ p[i] < p[j]

(* C22: the k-th send of a group goes to the exchange of the k-th record of *)
(* the answer in ascending order of preference, records of equal            *)
(* preference in the order of the answer.                                   *)
C22_AttemptsByPreferenceStable ==
    (MxDone /\ Resolved /\ mxrun.answer # <<>>) =>
        /\ Len(mxrun.attempts) <= Len(mxrun.answer)
        /\ \A k \in 1..Len(mxrun.attempts) :
              mxrun.attempts[k].relay_target = mxrun.answer[AttemptOrder[k]].exchange

(* three refused sends: the two records of preference 0 in the order of the *)
(* answer, then the record of preference 10 the answer began with           *)
C22_Witness ==
    /\ MxDone
    /\ mxrun.answer = <<[exchange |-> "mx1", preference |-> 10],
                        [exchange |-> "mx2", preference |-> 0],
                        [exchange |-> "mx1", preference |-> 0]>>
    /\ [k \in 1..Len(mxrun.attempts) |-> mxrun.attempts[k].relay_target]
          = <<"mx2", "mx1", "mx1">>


Accepted == {k \in 1..Len(mxrun.attempts) : mxrun.attempts[k].ok}

(* C23: in the run of one group an accepted send is the last send of the    *)
(* run, so at most one send is accepted; the group's result is then Ok and  *)
(* every recipient of the group is Sent.                                    *)
C23_FirstSuccessStops ==
    (MxDone /\ Resolved /\ mxrun.answer # <<>>) =>
        /\ Cardinality(Accepted) <= 1
        /\ \A k \in Accepted :
              /\ k = Len(mxrun.attempts)
              /\ mxrun.error = NoError
              /\ AllRcpt("Sent")

(* the first of three candidates accepts; the third would accept as well    *)
(* and is never tried                                                       *)
C23_Witness ==
    /\ MxDone /\ Resolved /\ cert
    /\ Len(Candidates) = 3 /\ NullAt = {}
    /\ mxrun.outs[1] /\ mxrun.outs[3]
    /\ Accepted = {1} /\ Len(mxrun.attempts) = 1
    /\ mxrun.error = NoError


(* Every candidate refuses the message *)
AllRefuse == \A i \in 1..Len(Candidates) : ~mxrun.outs[i]

AttemptedHosts == [k \in 1..Len(mxrun.attempts) |-> mxrun.attempts[k].relay_target]

(* C25: when the answer is not empty and has no null MX, a certificate is   *)
(* configured and every candidate refuses the message, there is one send    *)
(* per record of the answer, in the order of preference, none accepted; the *)
(* result is DeliveryError with the hosts of these sends, in their order,   *)
(* as targets; and every recipient of the group is HeldBack with that error *)
(* as its last.                                                             *)
C25_AllCandidatesFail ==
    (MxDone /\ Resolved /\ mxrun.answer # <<>> /\ NullAt = {} /\ cert /\ AllRefuse) =>
        /\ Len(mxrun.attempts) = Len(mxrun.answer)
        /\ \A k \in 1..Len(mxrun.attempts) :
              /\ ~mxrun.attempts[k].ok
              /\ mxrun.attempts[k].relay_target = mxrun.answer[AttemptOrder[k]].exchange
        /\ mxrun.error = DeliveryError(AttemptedHosts)
        /\ \A i \in 1..Len(mxrun.rcpt) :
              /\ mxrun.rcpt[i].email_status.kind = "HeldBack"
              /\ LastError(mxrun.rcpt[i].email_status) = mxrun.error

(* three candidates, all refuse: three sends and the error names the three  *)
(* hosts in the order they were tried                                       *)
C25_Witness ==
    /\ MxDone /\ cert /\ AllRefuse
    /\ mxrun.answer = <<[exchange |-> "mx1", preference |-> 10],
                        [exchange |-> "mx2", preference |-> 0],
                        [exchange |-> "mx1", preference |-> 0]>>
    /\ mxrun.error = DeliveryError(<<"mx2", "mx1", "mx1">>)
    /\ Len(mxrun.attempts) = 3
    /\ AllRcpt("HeldBack")


(* The errors a recipient status carries: the history of a HeldBack one *)
HistoryOf(st) == IF st.kind = "HeldBack" THEN st.errors ELSE <<>>

(* C26: the run of a group gives every recipient of the group the same      *)
(* status kind: Sent when the result is Ok; Failed with the error when the  *)
(* error is permanent; otherwise HeldBack with the error, stamped with the  *)
(* time of the run, appended to the history the recipient had.              *)
C26_OutcomeAppliedUniformly ==
    [][(mxrun.pc = "start" /\ mxrun'.pc = "done") =>
         /\ Len(mxrun'.rcpt) = Len(mxrun.rcpt)
         /\ \A i \in 1..Len(mxrun.rcpt) :
               /\ mxrun'.rcpt[i].address = mxrun.rcpt[i].address
               /\ mxrun'.rcpt[i].email_status.kind = mxrun'.rcpt[1].email_status.kind
               /\ mxrun'.rcpt[i].email_status =
                     IF mxrun'.error = NoError
                     THEN sent
                     ELSE IF is_permanent(mxrun'.error)
                     THEN [kind |-> "Failed",
                           errors |-> <<[timestamp |-> now, variant |-> mxrun'.error]>>]
                     ELSE [kind |-> "HeldBack",
                           errors |-> Append(HistoryOf(mxrun.rcpt[i].email_status),
                                             [timestamp |-> now,
                                              variant |-> mxrun'.error])]]_vars

(* a group of a held-back and a waiting recipient, every candidate refuses: *)
(* both are HeldBack, the first with its older error kept                   *)
C26_Witness ==
    /\ MxDone /\ mxrun.error.tag = "DeliveryError"
    /\ AllRcpt("HeldBack")
    /\ Len(mxrun.rcpt[1].email_status.errors) = 2
    /\ mxrun.rcpt[1].email_status.errors[1] = OldError
    /\ Len(mxrun.rcpt[2].email_status.errors) = 1

(* C27: without a certificate for the server name no send is made for a    *)
(* group.  When the resolution succeeds and the first candidate is not the  *)
(* null MX (or the answer is empty), the result is TlsNoCertificate and     *)
(* every recipient of the group is Failed with it; when the first candidate *)
(* is the null MX, every recipient is Failed with HasNullMX; when the       *)
(* resolution fails, every recipient is HeldBack with DnsRecord.            *)
C27_NoCertificateFails ==
    (MxDone /\ ~cert) =>
        /\ mxrun.attempts = <<>>
        /\ mxrun.error = IF ~Resolved THEN DnsRecord
                         ELSE IF 1 \in NullAt THEN HasNullMX("d1")
                         ELSE TlsNoCertificate
        /\ \A i \in 1..Len(mxrun.rcpt) :
              /\ mxrun.rcpt[i].email_status.kind =
                     IF Resolved THEN "Failed" ELSE "HeldBack"
              /\ LastError(mxrun.rcpt[i].email_status) = mxrun.error

(* C27 as stated: without a certificate every group ends with               *)
(* TlsNoCertificate, every recipient Failed, and no send is made.           *)
C27_NoCertificateAlwaysFails ==
    (MxDone /\ ~cert) =>
        /\ mxrun.error = TlsNoCertificate
        /\ mxrun.attempts = <<>>
        /\ AllRcpt("Failed")

(* no certificate, two candidates that would accept: no send, both Failed *)
C27_Witness ==
    /\ MxDone /\ ~cert /\ Resolved
    /\ Len(Candidates) = 2 /\ NullAt = {}
    /\ mxrun.outs[1]
    /\ mxrun.attempts = <<>>
    /\ AllRcpt("Failed") /\ mxrun.error = TlsNoCertificate


(* C35: when the answer is empty, a certificate is configured and the       *)
(* direct send is refused, the result is an Smtp error and every recipient  *)
(* of the group is HeldBack with it as its last error.                      *)
C35_DirectFailureHeldBack ==
    (MxDone /\ mxrun.answer = <<>> /\ cert /\ ~mxrun.outs[1]) =>
        /\ mxrun.error = Smtp
        /\ OneDirectAttempt /\ ~mxrun.attempts[1].ok
        /\ \A i \in 1..Len(mxrun.rcpt) :
              /\ mxrun.rcpt[i].email_status.kind = "HeldBack"
              /\ LastError(mxrun.rcpt[i].email_status) = Smtp

(* the direct send is refused for a group of a held-back and a waiting      *)
(* recipient                                                                *)
C35_Witness ==
    /\ MxDone /\ mxrun.answer = <<>> /\ cert /\ ~mxrun.outs[1]
    /\ mxrun.error = Smtp
    /\ AllRcpt("HeldBack")
    /\ Len(mxrun.rcpt[1].email_status.errors) = 2

(* The position of the first null MX among the candidates *)
FirstNull == Min(NullAt)

(* C38: when the answer holds a null MX, no send goes to "." nor to a       *)
(* candidate ordered at or after the first null MX, and the sends go to the *)
(* candidates before it in their order; an accepted send gives the result   *)
(* Ok; and when the result is HasNullMX, each candidate before the first    *)
(* null MX was sent to once and refused.                                    *)
C38_NullMxStopsLoop ==
    (MxDone /\ Resolved /\ NullAt # {}) =>
        /\ Len(mxrun.attempts) < FirstNull
        /\ \A k \in 1..Len(mxrun.attempts) :
              /\ mxrun.attempts[k].relay_target # NullMX
              /\ mxrun.attempts[k].relay_target = Candidates[k].exchange
              /\ mxrun.attempts[k].ok => mxrun.error = NoError
        /\ mxrun.error = HasNullMX("d1") =>
              /\ Len(mxrun.attempts) = FirstNull - 1
              /\ \A k \in 1..Len(mxrun.attempts) : ~mxrun.attempts[k].ok

(* the null MX is second of three: one refused send, none to the third      *)
(* candidate, which would accept                                            *)
C38_Witness ==
    /\ MxDone /\ Resolved /\ cert
    /\ Len(Candidates) = 3 /\ NullAt = {2}
    /\ ~mxrun.outs[1] /\ mxrun.outs[3]
    /\ Len(mxrun.attempts) = 1
    /\ mxrun.error = HasNullMX("d1")

----------------------------------------------------------------------------
(* Properties of one run of send_email (SpecSend) *)

SendDone     == sendrun.pc = "done"
MethodsOf(to) == {to[i].transfer_method : i \in 1..Len(to)}
CountIn(rcpt, a) == Cardinality({i \in 1..Len(rcpt) : rcpt[i].address = a})
OfMethod(to, m) == {to[i].address : i \in {j \in 1..Len(to) : to[j].transfer_method = m}}

(* The recipients send_email gives back to its caller with their statuses:  *)
(* those of every group when it returns Ok, none when it returns an error   *)
Merged == IF sendrun.result = "Ok" THEN sendrun.after ELSE <<>>

(* C31: an error returned by the transport of one group does not prevent    *)
(* the other groups from being attempted: when send_email is over, the      *)
(* transport of every group other than None was called, and the recipients  *)
(* of every group whose transport returned no error are, with their         *)
(* statuses, in the list of the message.                                    *)
C31_GroupsIndependent ==
    SendDone =>
        /\ sendrun.called = MethodsOf(sendrun.to) \ {"None"}
        /\ \A m \in MethodsOf(sendrun.to) \ sendrun.errs :
              OfMethod(sendrun.to, m) \subseteq Envelope(Merged)

(* C33: in a group delivered by the maildir transport, each recipient is    *)
(* Sent when its write succeeds and HeldBack when it fails, whatever        *)
(* happens to the other recipients of the group; the failure of a recipient *)
(* does not make send_email return an error.                                *)
C33_MaildirFailureIsPerRecipient ==
    (SendDone /\ "Maildir" \in sendrun.called) =>
        /\ \A a \in OfMethod(sendrun.to, "Maildir") :
              /\ a \in Envelope(sendrun.after)
              /\ a \in sendrun.written =>
                    StatusOf(sendrun.after, a) = {"Sent"}
              /\ a \notin sendrun.written =>
                    StatusOf(sendrun.after, a) = {"HeldBack"}
        /\ sendrun.errs = {} => sendrun.result = "Ok"

(* two maildir recipients: the write of the first fails, the second is Sent *)
C33_Witness ==
    /\ SendDone /\ sendrun.result = "Ok"
    /\ Len(sendrun.to) = 2
    /\ OfMethod(sendrun.to, "Maildir") = Envelope(sendrun.to)
    /\ sendrun.to[1].address \notin sendrun.written
    /\ sendrun.to[2].address \in sendrun.written
    /\ StatusOf(sendrun.after, sendrun.to[1].address) = {"HeldBack"}
    /\ StatusOf(sendrun.after, sendrun.to[2].address) = {"Sent"}

(* C34: the list send_email returns holds each recipient that is not Sent   *)
(* after the dispatch once, with the status the dispatch gave it, and no    *)
(* recipient that is Sent.                                                  *)
C34_ReturnsExactlyNotSent ==
    (SendDone /\ sendrun.result = "Ok") =>
        /\ Envelope(sendrun.after) = Envelope(sendrun.to)
        /\ \A a \in Envelope(sendrun.to) :
              CountIn(sendrun.out, a) =
                 IF StatusOf(sendrun.after, a) = {"Sent"} THEN 0 ELSE 1
        /\ \A i \in 1..Len(sendrun.out) :
              \E j \in 1..Len(sendrun.after) : sendrun.out[i] = sendrun.after[j]
        /\ \A a \in OfMethod(sendrun.to, "None") :
              \E i \in 1..Len(sendrun.out) : sendrun.out[i] = Rcpt(a, "None")

(* one recipient is Sent and discarded, the other, of transfer method None, *)
(* is returned untouched                                                    *)
C34_Witness ==
    /\ SendDone /\ sendrun.result = "Ok"
    /\ Len(sendrun.to) = 2 /\ Len(sendrun.out) = 1
    /\ sendrun.out[1].transfer_method = "None"
    /\ \E i \in 1..2 : StatusOf(sendrun.after, sendrun.to[i].address) = {"Sent"}

----------------------------------------------------------------------------
(* Properties of one run of Deliver::deliver (SpecDeliver) *)

DeliverDone == sendrun.pc = "done" /\ sendrun.called = {"Deliver"}

(* C36: the list Deliver::deliver returns holds every address as many times *)
(* as the input list does, with the transfer method it came with, and every *)
(* recipient has the status its domain group ended with (none is still      *)
(* Waiting): only the order may differ.                                     *)
C36_DeliverConservesRecipients ==
    DeliverDone =>
        /\ Len(sendrun.out) = Len(sendrun.to)
        /\ \A a \in Addrs : CountIn(sendrun.out, a) = CountIn(sendrun.to, a)
        /\ \A i \in 1..Len(sendrun.out) :
              /\ sendrun.out[i].transfer_method = "Deliver"
              /\ sendrun.out[i].email_status.kind \in {"Sent", "HeldBack", "Failed"}

(* three recipients, the domains interleaved, one domain repeated: the      *)
(* output is grouped by domain, the second domain's group Sent              *)
C36_Witness ==
    /\ DeliverDone
    /\ [i \in 1..Len(sendrun.to) |-> sendrun.to[i].address] = <<"a@d1", "c@d2", "b@d1">>
    /\ [i \in 1..Len(sendrun.out) |-> sendrun.out[i].address] = <<"a@d1", "b@d1", "c@d2">>
    /\ sendrun.out[3].email_status.kind = "Sent"
    /\ sendrun.out[1].email_status.kind = "HeldBack"

----------------------------------------------------------------------------
(* Properties of the sweep tasks (SpecOverlap) *)

InHandler(s, m) ==
    /\ tasks[s].pc \in {"get_msg", "send", "stuck", "place"}
    /\ Current(s) = m

(* No task can take a step: each one is over or awaits a send for ever *)
Quiet == \A s \in SweepIds : tasks[s].pc \in {"done", "stuck"}

(* C32: a send that never completes ties up the handling of its own entry   *)
(* only: when every task is over or stuck in such a send, every other entry *)
(* a sweep listed was handled by that sweep.                                *)
C32_StuckSendTiesUpOneItem ==
    Quiet =>
        \A s \in SweepIds : \A j \in 1..Len(tasks[s].queued) :
            \/ j < tasks[s].i
            \/ tasks[s].pc = "stuck" /\ j = tasks[s].i

(* C37: no message is in the handler of two sweeps at the same time, no     *)
(* recipient is delivered the same message by two sweeps, and no message is *)
(* moved, written or removed by two sweeps.                                 *)
C37_SweepsDoNotOverlap ==
    \A s1 \in SweepIds, s2 \in SweepIds :
        s1 # s2 =>
            /\ \A m \in Range(MsgSeq) : ~(InHandler(s1, m) /\ InHandler(s2, m))
            /\ tasks[s1].sent \cap tasks[s2].sent = {}
            /\ tasks[s1].placed \cap tasks[s2].placed = {}

(* C40: the step in which the handler returns the error of get_ctx or of    *)
(* get_msg leaves the queues and the bodies as they are, and the handler    *)
(* made no send and no queue write before it.                               *)
C40_ReadErrorLeavesMessage ==
    [][\A s \in SweepIds :
          (tasks'[s].i # tasks[s].i /\ tasks'[s].last \in {"get_ctx", "get_msg"}) =>
              /\ queues' = queues
              /\ bodies' = bodies
              /\ ~tasks'[s].touched
              /\ tasks'[s].sent = tasks[s].sent
              /\ tasks'[s].placed = tasks[s].placed]_vars

(* the first sweep could not read the body of m1, which was ready: m1 is    *)
(* delivered by the second sweep                                            *)
C40_Witness ==
    /\ tasks[1].pc = "loop" /\ tasks[1].i = 2 /\ tasks[1].last = "get_msg"
    /\ tasks[1].queued[1] = "m1"
    /\ <<"m1", "a@d1">> \notin tasks[1].sent
    /\ "m1" \notin tasks[1].placed
    /\ <<"m1", "a@d1">> \in tasks[2].sent

=============================================================================
